---------------------------- MODULE Spec2Model ----------------------------
(***************************************************************************)
(* A model of BIMParser (src/streamlit_app.py, lines 42-676): parse_file   *)
(* and the builders it runs on the decoded document.                       *)
(*                                                                         *)
(* Text.  Every Python str is a sequence of atoms.  An atom is a TLA+      *)
(* string standing for one character ("'", "[", "]") or for an indivisible *)
(* run of characters (an identifier such as "T", a word such as "model").  *)
(*                                                                         *)
(* The source's Chinese record keys and literals are written in ASCII:     *)
(*   表名 tbl          源表名 src_tbl        表分区数量 n_part              *)
(*   列名 col          源列名 src_col        字段格式 dtype                 *)
(*   度量值名称 m_name  度量值计算逻辑 m_expr  度量值数据类型 m_fmt          *)
(*   度量值文件夹 m_dir 所属表 m_owner        度量值涉及表 m_tables         *)
(*   度量值涉及列 m_cols 度量值引用 m_refs                                  *)
(*   源表字段 from_col 目标表名 to_tbl  目标表字段 to_col  关系类型 card    *)
(*   筛选方向 dir      是否活动 active                                      *)
(*   列数 n_col  度量值数 n_meas  分区数 n_parts  实例地址 addr             *)
(*   数据库名 db  协议 proto                                                *)
(*   "DAX创建" is the atom "DAX",  "User_用户权限表" is system_table,     *)
(*   " (源表: " the atom " (src_tbl: ",  " (源列: " the atom " (src_col: ". *)
(***************************************************************************)
EXTENDS Integers, Sequences, FiniteSets, TLC

VARIABLES
    text,       \* text[t]: the file_content argument of thread t's call
    pc,         \* pc[t]: where thread t is inside parse_file
    self,       \* self[t]: the BIMParser instance thread t calls
    hashSeed,   \* hashSeed[t]: the str-hash seed of the process thread t runs in
    fields,     \* fields[p]: the attributes of BIMParser instance p
    heap,       \* heap[i]: the contents of the list object with identity i
    loc,        \* loc[t]: the locals of thread t's parse_file frame
    result      \* result[t]: the dict parse_file returned to thread t

vars == <<text, pc, self, hashSeed, fields, heap, loc, result>>

\* Op applied to the value e: the body of Op reads a value computed once
With(e, Op(_)) == Op(e)

-----------------------------------------------------------------------------
(* Decoded JSON values, as Python objects: k is the type, v the payload.   *)

JDict(pairs) == [k |-> "dict", v |-> pairs]   \* <<key, value>> pairs, insertion order
JList(items) == [k |-> "list", v |-> items]
JStr(s)      == [k |-> "str",  v |-> s]
JNum(n)      == [k |-> "num",  v |-> n]
JBool(b)     == [k |-> "bool", v |-> b]
JNone        == [k |-> "none", v |-> "null"]

S(a) == <<a>>                   \* the one-atom str
St(a) == JStr(<<a>>)

Keys(d) == {d.v[i][1] : i \in 1..Len(d.v)}
Has(d, key) == d.k = "dict" /\ key \in Keys(d)
Val(d, key) == d.v[CHOOSE i \in 1..Len(d.v) : d.v[i][1] = key][2]

\* d.get(key, default) of a dict d
DictGet(d, key, default) == IF key \in Keys(d) THEN Val(d, key) ELSE default

\* dict[key] = val: a key already present keeps its position
DictSet(pairs, key, val) ==
    IF \E i \in 1..Len(pairs) : pairs[i][1] = key
    THEN [i \in 1..Len(pairs) |-> IF pairs[i][1] = key THEN <<key, val>> ELSE pairs[i]]
    ELSE Append(pairs, <<key, val>>)

IsSubstring(p, s) ==
    \E i \in 0..(Len(s) - Len(p)) : SubSeq(s, i + 1, i + Len(p)) = p

-----------------------------------------------------------------------------
(* json.loads, on a text given as its sequence of JSON tokens.             *)

P(c)      == [k |-> "p",   v |-> c]      \* punctuation { } [ ] : ,
TStr(s)   == [k |-> "str", v |-> s]      \* a string literal
TNum(n)   == [k |-> "num", v |-> n]
TLit(w)   == [k |-> "lit", v |-> w]      \* true false null
TBad      == [k |-> "bad", v |-> "?"]    \* anything that is no JSON token
IsP(tok, c) == tok.k = "p" /\ tok.v = c

DecodeFail == [ok |-> FALSE, val |-> JNone, next |-> 0]

RECURSIVE ParseValue(_, _), ParseElems(_, _, _), ParseMembers(_, _, _)

ParseValue(toks, i) ==
    IF i > Len(toks) THEN DecodeFail
    ELSE LET tok == toks[i] IN
         CASE tok.k = "str" -> [ok |-> TRUE, val |-> JStr(tok.v), next |-> i + 1]
           [] tok.k = "num" -> [ok |-> TRUE, val |-> JNum(tok.v), next |-> i + 1]
           [] tok.k = "lit" ->
                [ok |-> TRUE, next |-> i + 1,
                 val |-> IF tok.v = "null" THEN JNone ELSE JBool(tok.v)]
           [] IsP(tok, "[") ->
                IF i < Len(toks) /\ IsP(toks[i + 1], "]")
                THEN [ok |-> TRUE, val |-> JList(<<>>), next |-> i + 2]
                ELSE ParseElems(toks, i + 1, <<>>)
           [] IsP(tok, "{") ->
                IF i < Len(toks) /\ IsP(toks[i + 1], "}")
                THEN [ok |-> TRUE, val |-> JDict(<<>>), next |-> i + 2]
                ELSE ParseMembers(toks, i + 1, <<>>)
           [] OTHER -> DecodeFail

ParseElems(toks, i, acc) ==
    With(ParseValue(toks, i), LAMBDA r :
    IF ~r.ok \/ r.next > Len(toks) THEN DecodeFail
    ELSE IF IsP(toks[r.next], ",") THEN ParseElems(toks, r.next + 1, Append(acc, r.val))
    ELSE IF IsP(toks[r.next], "]")
         THEN [ok |-> TRUE, val |-> JList(Append(acc, r.val)), next |-> r.next + 1]
    ELSE DecodeFail)

ParseMembers(toks, i, acc) ==
    IF i + 1 > Len(toks) \/ toks[i].k # "str" \/ ~IsP(toks[i + 1], ":") THEN DecodeFail
    ELSE With(ParseValue(toks, i + 2), LAMBDA r :
         IF ~r.ok \/ r.next > Len(toks) THEN DecodeFail
         ELSE LET acc2 == DictSet(acc, toks[i].v, r.val) IN
              IF IsP(toks[r.next], ",") THEN ParseMembers(toks, r.next + 1, acc2)
              ELSE IF IsP(toks[r.next], "}")
                   THEN [ok |-> TRUE, val |-> JDict(acc2), next |-> r.next + 1]
              ELSE DecodeFail)

json_loads(toks) ==
    With(ParseValue(toks, 1), LAMBDA r :
    IF r.ok /\ r.next = Len(toks) + 1
    THEN [ok |-> TRUE, val |-> r.val]
    ELSE [ok |-> FALSE, val |-> JNone])

-----------------------------------------------------------------------------
(* The Python operations the builders apply to decoded values.  Each gives *)
(* [ok, val, err]: ok = FALSE is the exception err raised by the operation.*)

Ok(x)      == [ok |-> TRUE,  val |-> x, err |-> "none"]
Raise(e)   == [ok |-> FALSE, val |-> JNone, err |-> e]

\* key in x
PyIn(key, x) ==
    CASE x.k = "dict" -> Ok(key \in Keys(x))
      [] x.k = "list" -> Ok(\E i \in 1..Len(x.v) : x.v[i].k = "str" /\ x.v[i].v = key)
      [] x.k = "str"  -> Ok(IsSubstring(key, x.v))
      [] OTHER        -> Raise("TypeError")

\* x[key], key a str
PyGetItem(x, key) ==
    IF x.k = "dict"
    THEN IF key \in Keys(x) THEN Ok(Val(x, key)) ELSE Raise("KeyError")
    ELSE Raise("TypeError")

\* x.get(key, default)
PyGet(x, key, default) ==
    IF x.k = "dict"
    THEN Ok(IF key \in Keys(x) THEN Val(x, key) ELSE default)
    ELSE Raise("AttributeError")

\* for e in x
PyIter(x) ==
    CASE x.k = "list" -> Ok(x.v)
      [] x.k = "dict" -> Ok([i \in 1..Len(x.v) |-> JStr(x.v[i][1])])
      [] x.k = "str"  -> Ok([i \in 1..Len(x.v) |-> JStr(<<x.v[i]>>)])
      [] OTHER        -> Raise("TypeError")

\* len(x)
PyLen(x) ==
    IF x.k \in {"list", "dict", "str"} THEN Ok(Len(x.v)) ELSE Raise("TypeError")

\* bool(x)
Truthy(x) ==
    CASE x.k \in {"list", "dict", "str"} -> Len(x.v) > 0
      [] x.k = "num"  -> x.v # "0"
      [] x.k = "bool" -> x.v = "true"
      [] OTHER        -> FALSE

-----------------------------------------------------------------------------
(* _locate_model (lines 72-95): found = FALSE is the None it returns.      *)

NotFound == [found |-> FALSE, val |-> JNone]

\* a locator that looks at the root alone
LocateAtRoot(obj) ==
    IF obj.k # "dict" THEN NotFound
    ELSE IF Has(obj, S("model")) /\ Val(obj, S("model")).k = "dict"
    THEN [found |-> TRUE, val |-> Val(obj, S("model"))]
    ELSE IF Has(obj, S("SemanticModel")) /\ Val(obj, S("SemanticModel")).k = "dict"
    THEN [found |-> TRUE, val |-> Val(obj, S("SemanticModel"))]
    ELSE IF Has(obj, S("tables")) /\ Val(obj, S("tables")).k = "list"
    THEN [found |-> TRUE, val |-> obj]
    ELSE NotFound

RECURSIVE _locate_model(_), LocateIn(_, _)

_locate_model(obj) ==
    IF obj.k = "dict" THEN
        IF Has(obj, S("model")) /\ Val(obj, S("model")).k = "dict"
        THEN [found |-> TRUE, val |-> Val(obj, S("model"))]
        ELSE IF Has(obj, S("SemanticModel")) /\ Val(obj, S("SemanticModel")).k = "dict"
        THEN [found |-> TRUE, val |-> Val(obj, S("SemanticModel"))]
        ELSE IF Has(obj, S("tables")) /\ Val(obj, S("tables")).k = "list"
        THEN [found |-> TRUE, val |-> obj]
        ELSE LocateIn([i \in 1..Len(obj.v) |-> obj.v[i][2]], 1)
    ELSE IF obj.k = "list" THEN LocateIn(obj.v, 1)
    ELSE NotFound

\* the two for loops (lines 84-88, 90-94) over the values / the items
LocateIn(items, i) ==
    IF i > Len(items) THEN NotFound
    ELSE IF items[i].k \in {"dict", "list"}
         THEN With(_locate_model(items[i]), LAMBDA found :
              IF found.found THEN found ELSE LocateIn(items, i + 1))
         ELSE LocateIn(items, i + 1)

-----------------------------------------------------------------------------
(* Atoms and their character classes.                                      *)

Q     == "'"
DQ    == "\""
LB    == "["
RB    == "]"
LC    == "{"
RC    == "}"
COMMA == ","
SEMI  == ";"
RP    == ")"
EQ    == "="
HASH  == "#"
SLASH == "/"
SP    == " "
NL    == "\n"

Whitespace == {SP, NL}                                   \* \s
\* atoms that are runs of [a-zA-Z_][a-zA-Z0-9_]*
IdentStart == {"T", "U", "V", "a", "b", "c", "x", "y", "z", "old", "new",
               "src", "dim", "fact", "User_", "Source", "Item", "model",
               "tables", "FROM", "from", "SELECT", "let", "Schema", "MySql",
               "host", "db", "salesdb"}
\* atoms that are runs of [a-zA-Z0-9_]
IdentChar  == IdentStart \cup {"0", "1", "2", "5"}
FromWord   == {"FROM", "from"}                           \* FROM under re.IGNORECASE

DAX        == <<"DAX">>                                  \* "DAX创建"
\* "User_用户权限表": an ASCII run and the run of Chinese characters
system_table == <<"User_", "YongHuQuanXianBiao">>

\* the least j >= i with s[j] = c, or 0
NextIdx(s, i, c) ==
    IF \E j \in i..Len(s) : s[j] = c
    THEN CHOOSE j \in i..Len(s) : s[j] = c /\ \A h \in i..(j - 1) : s[h] # c
    ELSE 0

\* the least j >= i with s[j] \notin cls, or Len(s) + 1
SkipClass(s, i, cls) ==
    IF \E j \in i..Len(s) : s[j] \notin cls
    THEN CHOOSE j \in i..Len(s) : s[j] \notin cls /\ \A h \in i..(j - 1) : s[h] \in cls
    ELSE Len(s) + 1

At(s, i, c) == i >= 1 /\ i <= Len(s) /\ s[i] = c

Range(seq) == {seq[i] : i \in 1..Len(seq)}

RECURSIVE Join(_, _)
\* sep.join(lines), every line a str
Join(lines, sep) ==
    IF Len(lines) = 0 THEN <<>>
    ELSE IF Len(lines) = 1 THEN lines[1]
    ELSE lines[1] \o <<sep>> \o Join(Tail(lines), sep)

\* sep.join(x) for a decoded list x: TypeError unless every item is a str
PyJoin(x, sep) ==
    IF \A i \in 1..Len(x.v) : x.v[i].k = "str"
    THEN Ok(Join([i \in 1..Len(x.v) |-> x.v[i].v], sep))
    ELSE Raise("TypeError")

-----------------------------------------------------------------------------
(* re.findall for the patterns of the measure analysis.                    *)

RECURSIVE FindQuoted(_, _)
\* re.findall(r"'([^']+)'", s), from position i
FindQuoted(s, i) ==
    IF i > Len(s) THEN <<>>
    ELSE IF s[i] = Q
         THEN LET j == NextIdx(s, i + 1, Q) IN
              IF j > i + 1
              THEN <<SubSeq(s, i + 1, j - 1)>> \o FindQuoted(s, j + 1)
              ELSE FindQuoted(s, i + 1)
         ELSE FindQuoted(s, i + 1)

RECURSIVE FindBracketed(_, _)
\* re.findall(r"\[([^\]]+)\]", s), from position i
FindBracketed(s, i) ==
    IF i > Len(s) THEN <<>>
    ELSE IF s[i] = LB
         THEN LET j == NextIdx(s, i + 1, RB) IN
              IF j > i + 1
              THEN <<SubSeq(s, i + 1, j - 1)>> \o FindBracketed(s, j + 1)
              ELSE FindBracketed(s, i + 1)
         ELSE FindBracketed(s, i + 1)

\* the match of  '[^']+'\['([^']+)'\] | '[^']+'\[([^\]]+)\]  at position i:
\* [hit, cap, end]
ColumnMatchAt(s, i) ==
    LET j == IF At(s, i, Q) THEN NextIdx(s, i + 1, Q) ELSE 0
        open == j > i + 1 /\ At(s, j + 1, LB)
        k == IF open /\ At(s, j + 2, Q) THEN NextIdx(s, j + 3, Q) ELSE 0
        m == IF open THEN NextIdx(s, j + 2, RB) ELSE 0
    IN  IF open /\ k > j + 3 /\ At(s, k + 1, RB)
        THEN [hit |-> TRUE, cap |-> SubSeq(s, j + 3, k - 1), end |-> k + 1]
        ELSE IF open /\ m > j + 2
        THEN [hit |-> TRUE, cap |-> SubSeq(s, j + 2, m - 1), end |-> m]
        ELSE [hit |-> FALSE, cap |-> <<>>, end |-> 0]

RECURSIVE FindColumns(_, _)
FindColumns(s, i) ==
    IF i > Len(s) THEN <<>>
    ELSE With(ColumnMatchAt(s, i), LAMBDA r :
         IF r.hit THEN <<r.cap>> \o FindColumns(s, r.end + 1)
         ELSE FindColumns(s, i + 1))

RECURSIVE FindQualified(_, _, _)
\* re.findall(rf"'{re.escape(tbl)}'\[([^\]]+)\]", s), from position i
FindQualified(s, tbl, i) ==
    IF i > Len(s) THEN <<>>
    ELSE LET n == Len(tbl)
             head == At(s, i, Q) /\ i + n + 2 <= Len(s)
                     /\ SubSeq(s, i + 1, i + n) = tbl
                     /\ s[i + n + 1] = Q /\ s[i + n + 2] = LB
             m == IF head THEN NextIdx(s, i + n + 3, RB) ELSE 0
         IN  IF head /\ m > i + n + 3
             THEN <<SubSeq(s, i + n + 3, m - 1)>> \o FindQualified(s, tbl, m + 1)
             ELSE FindQualified(s, tbl, i + 1)

\* _extract_involved_tables (lines 480-487): the set behind list(set(tables))
_extract_involved_tables(expression) == Range(FindQuoted(expression, 1))

\* _extract_involved_columns (lines 489-500): the set behind list(set(columns))
_extract_involved_columns(expression) == Range(FindColumns(expression, 1))

-----------------------------------------------------------------------------
(* re.search for the patterns of the source resolver.                      *)

NoHit == [hit |-> FALSE, cap |-> <<>>, end |-> 0]

\* the leftmost position at which M(s, i) hits: re.search
FirstHit(s, M(_, _)) ==
    IF \E i \in 1..Len(s) : M(s, i).hit
    THEN M(s, CHOOSE i \in 1..Len(s) : M(s, i).hit /\ \A h \in 1..(i - 1) : ~M(s, h).hit)
    ELSE NoHit

\* Item="([^"]+)" at position i
ItemAt(s, i) ==
    LET j == IF At(s, i, "Item") /\ At(s, i + 1, EQ) /\ At(s, i + 2, DQ)
             THEN NextIdx(s, i + 3, DQ) ELSE 0
    IN  IF j > i + 3 THEN [hit |-> TRUE, cap |-> SubSeq(s, i + 3, j - 1), end |-> j]
        ELSE NoHit

\* FROM\s+([a-zA-Z_][a-zA-Z0-9_]*) under re.IGNORECASE, at position i
FromAt(s, i) ==
    LET k == IF i < Len(s) /\ s[i] \in FromWord /\ s[i + 1] \in Whitespace
             THEN SkipClass(s, i + 1, Whitespace) ELSE 0
    IN  IF k >= 1 /\ k <= Len(s) /\ s[k] \in IdentStart
        THEN LET e == SkipClass(s, k + 1, IdentChar) IN
             [hit |-> TRUE, cap |-> SubSeq(s, k, e - 1), end |-> e - 1]
        ELSE NoHit

\* an _extract_source_table that looks for the FROM clause before the Item tag
FromBeforeItem(expression) ==
    IF expression.k # "list" THEN Ok(DAX)
    ELSE LET expression_text == PyJoin(expression, NL) IN
         IF ~expression_text.ok THEN expression_text
         ELSE With(FirstHit(expression_text.val, FromAt), LAMBDA from_match :
              IF from_match.hit THEN Ok(from_match.cap)
              ELSE With(FirstHit(expression_text.val, ItemAt), LAMBDA item_match :
                   IF item_match.hit THEN Ok(item_match.cap) ELSE Ok(DAX)))

\* _extract_source_table (lines 174-193)
_extract_source_table(expression) ==
    IF expression.k # "list" THEN Ok(DAX)
    ELSE LET expression_text == PyJoin(expression, NL) IN
         IF ~expression_text.ok THEN expression_text
         ELSE With(FirstHit(expression_text.val, ItemAt), LAMBDA item_match :
                  With(FirstHit(expression_text.val, FromAt), LAMBDA from_match :
                IF item_match.hit THEN Ok(item_match.cap)
                  ELSE IF from_match.hit THEN Ok(from_match.cap)
                  ELSE Ok(DAX)))

NoPair == [hit |-> FALSE, addr |-> <<>>, db |-> <<>>]

\* ([^;]+);([^"]+)" from position g
EndpointPair(s, g) ==
    LET p == NextIdx(s, g, SEMI)
        d == IF p > g THEN NextIdx(s, p + 1, DQ) ELSE 0
    IN  IF p > g /\ d > p + 1
        THEN [hit |-> TRUE, addr |-> SubSeq(s, g, p - 1), db |-> SubSeq(s, p + 1, d - 1)]
        ELSE NoPair

\* Value\.NativeQuery\(#"([^;]+);([^"]+)" at position i
NativeQueryAt(s, i) ==
    IF At(s, i, "Value.NativeQuery(") /\ At(s, i + 1, HASH) /\ At(s, i + 2, DQ)
    THEN EndpointPair(s, i + 3) ELSE NoPair

\* Source\s*=\s*#"([^;]+);([^"]+)" at position i
SourceAt(s, i) ==
    LET a == IF At(s, i, "Source") THEN SkipClass(s, i + 1, Whitespace) ELSE 0
        b == IF At(s, a, EQ) THEN SkipClass(s, a + 1, Whitespace) ELSE 0
    IN  IF At(s, b, HASH) /\ At(s, b + 1, DQ) THEN EndpointPair(s, b + 2) ELSE NoPair

\* Schema="([^"]+)" at position i
SchemaAt(s, i) ==
    LET j == IF At(s, i, "Schema") /\ At(s, i + 1, EQ) /\ At(s, i + 2, DQ)
             THEN NextIdx(s, i + 3, DQ) ELSE 0
    IN  IF j > i + 3 THEN [hit |-> TRUE, cap |-> SubSeq(s, i + 3, j - 1), end |-> j]
        ELSE NoHit

FirstPair(s, M(_, _)) ==
    IF \E i \in 1..Len(s) : M(s, i).hit
    THEN M(s, CHOOSE i \in 1..Len(s) : M(s, i).hit /\ \A h \in 1..(i - 1) : ~M(s, h).hit)
    ELSE NoPair

\* an extraction that tries the Source assignment before the native query
SourceBeforeNative(expression) ==
    IF expression.k # "list" THEN Ok(<< <<>>, <<>> >>)
    ELSE LET expression_text == PyJoin(expression, NL) IN
         IF ~expression_text.ok THEN expression_text
         ELSE With(FirstPair(expression_text.val, NativeQueryAt), LAMBDA native_query_match :
                  With(FirstPair(expression_text.val, SourceAt), LAMBDA source_match :
                  With(FirstHit(expression_text.val, SchemaAt), LAMBDA schema_match :
                IF source_match.hit
                  THEN Ok(<<source_match.addr, source_match.db>>)
                  ELSE IF native_query_match.hit
                  THEN Ok(<<native_query_match.addr, native_query_match.db>>)
                  ELSE IF schema_match.hit THEN Ok(<< <<>>, schema_match.cap >>)
                  ELSE Ok(<< <<>>, <<>> >>))))

\* _extract_connection_info (lines 195-229): val is <<instance_address, db_name>>
_extract_connection_info(expression) ==
    IF expression.k # "list" THEN Ok(<< <<>>, <<>> >>)
    ELSE LET expression_text == PyJoin(expression, NL) IN
         IF ~expression_text.ok THEN expression_text
         ELSE With(FirstPair(expression_text.val, NativeQueryAt), LAMBDA native_query_match :
                  With(FirstPair(expression_text.val, SourceAt), LAMBDA source_match :
                  With(FirstHit(expression_text.val, SchemaAt), LAMBDA schema_match :
                IF native_query_match.hit
                  THEN Ok(<<native_query_match.addr, native_query_match.db>>)
                  ELSE IF source_match.hit
                  THEN Ok(<<source_match.addr, source_match.db>>)
                  ELSE IF schema_match.hit THEN Ok(<< <<>>, schema_match.cap >>)
                  ELSE Ok(<< <<>>, <<>> >>))))

-----------------------------------------------------------------------------
(* _extract_rename_mappings_from_m (lines 309-339).                        *)

RECURSIVE GroupEnd(_, _)
\* the closing } of  \{[^}]*(?:\{[^}]*}[^}]*)*}\)  whose first segment starts
\* at seg: the first } that a ) follows, every earlier } having a { in the
\* segment before it; 0 when there is none
GroupEnd(s, seg) ==
    LET p == NextIdx(s, seg, RC) IN
    IF p = 0 THEN 0
    ELSE IF At(s, p + 1, RP) THEN p
    ELSE IF \E h \in seg..(p - 1) : s[h] = LC THEN GroupEnd(s, p + 1)
    ELSE 0

\* Table\.RenameColumns\([^,]+,\s*(\{[^}]*(?:\{[^}]*}[^}]*)*})\) at position i
RenameAt(s, i) ==
    With(IF At(s, i, "Table.RenameColumns(") THEN NextIdx(s, i + 1, COMMA) ELSE 0, LAMBDA c :
        With(IF c > i + 1 THEN SkipClass(s, c + 1, Whitespace) ELSE 0, LAMBDA g :
        With(IF At(s, g, LC) THEN GroupEnd(s, g + 1) ELSE 0, LAMBDA e :
      IF e > 0 THEN [hit |-> TRUE, cap |-> SubSeq(s, g, e), end |-> e + 1]
        ELSE NoHit)))

RECURSIVE FindRename(_, _)
\* re.findall(rename_pattern, s), from position i
FindRename(s, i) ==
    IF i > Len(s) THEN <<>>
    ELSE With(RenameAt(s, i), LAMBDA r :
         IF r.hit THEN <<r.cap>> \o FindRename(s, r.end + 1)
         ELSE FindRename(s, i + 1))

\* \{\s*"([^"]+)"\s*,\s*"([^"]+)"\s*} at position i: cap is <<old, new>>
QuotedPairAt(s, i) ==
    With(IF At(s, i, LC) THEN SkipClass(s, i + 1, Whitespace) ELSE 0, LAMBDA a :
        With(IF At(s, a, DQ) THEN NextIdx(s, a + 1, DQ) ELSE 0, LAMBDA b :
        With(IF b > a + 1 THEN SkipClass(s, b + 1, Whitespace) ELSE 0, LAMBDA c :
        With(IF At(s, c, COMMA) THEN SkipClass(s, c + 1, Whitespace) ELSE 0, LAMBDA d :
        With(IF At(s, d, DQ) THEN NextIdx(s, d + 1, DQ) ELSE 0, LAMBDA f :
        With(IF f > d + 1 THEN SkipClass(s, f + 1, Whitespace) ELSE 0, LAMBDA h :
      IF At(s, h, RC)
        THEN [hit |-> TRUE, cap |-> <<SubSeq(s, a + 1, b - 1), SubSeq(s, d + 1, f - 1)>>,
              end |-> h]
        ELSE NoHit))))))

\* \{\s*([a-zA-Z_][a-zA-Z0-9_]*)\s*,\s*"([^"]+)"\s*} at position i
BarePairAt(s, i) ==
    With(IF At(s, i, LC) THEN SkipClass(s, i + 1, Whitespace) ELSE 0, LAMBDA a :
        With(IF a >= 1 /\ a <= Len(s) /\ s[a] \in IdentStart
             THEN SkipClass(s, a + 1, IdentChar) ELSE 0, LAMBDA b :
        With(IF b > a THEN SkipClass(s, b, Whitespace) ELSE 0, LAMBDA c :
        With(IF At(s, c, COMMA) THEN SkipClass(s, c + 1, Whitespace) ELSE 0, LAMBDA d :
        With(IF At(s, d, DQ) THEN NextIdx(s, d + 1, DQ) ELSE 0, LAMBDA f :
        With(IF f > d + 1 THEN SkipClass(s, f + 1, Whitespace) ELSE 0, LAMBDA h :
      IF At(s, h, RC)
        THEN [hit |-> TRUE, cap |-> <<SubSeq(s, a, b - 1), SubSeq(s, d + 1, f - 1)>>,
              end |-> h]
        ELSE NoHit))))))

\* the pair pattern of the first pass (quoted) or of the second (bare)
PairAt(s, i, quoted) == IF quoted THEN QuotedPairAt(s, i) ELSE BarePairAt(s, i)

RECURSIVE FindPairs(_, _, _)
\* re.findall of a pair pattern in s, from position i
FindPairs(s, i, quoted) ==
    IF i > Len(s) THEN <<>>
    ELSE With(PairAt(s, i, quoted), LAMBDA r :
         IF r.hit THEN <<r.cap>> \o FindPairs(s, r.end + 1, quoted)
         ELSE FindPairs(s, i + 1, quoted))

RECURSIVE AddPairs(_, _, _)
\* rename_mappings[new_name] = old_name for the pairs from the i-th on
AddPairs(mappings, pairs, i) ==
    IF i > Len(pairs) THEN mappings
    ELSE AddPairs(DictSet(mappings, pairs[i][2], pairs[i][1]), pairs, i + 1)

RECURSIVE AddMatches(_, _, _, _)
\* the loop over matches (lines 325-330, 334-337) with one pair pattern
AddMatches(mappings, matches, i, quoted) ==
    IF i > Len(matches) THEN mappings
    ELSE AddMatches(AddPairs(mappings, FindPairs(matches[i], 1, quoted), 1),
                    matches, i + 1, quoted)

\* val is the dict rename_mappings, as <<new_name, old_name>> pairs
_extract_rename_mappings_from_m(expression) ==
    LET joined == IF expression.k = "list" THEN PyJoin(expression, SP)
                  ELSE IF expression.k = "str" THEN Ok(expression.v)
                  ELSE Raise("TypeError")
    IN  IF ~joined.ok THEN joined
        ELSE With(FindRename(joined.val, 1), LAMBDA matches :
                 With(AddMatches(<<>>, matches, 1, TRUE), LAMBDA quoted :
               IF Len(quoted) > 0 THEN Ok(quoted)
                 ELSE Ok(AddMatches(<<>>, matches, 1, FALSE))))

-----------------------------------------------------------------------------
(* Helpers shared by the builders.                                         *)

EmptyStr == JStr(<<>>)
PyEq(a, b) == a.k = b.k /\ a.v = b.v                    \* a == b
Hashable(x) == x.k \notin {"list", "dict"}               \* usable as a dict key

\* str(x), as an f-string renders it; a container is rendered as one atom
PyStr(x) ==
    CASE x.k = "str"  -> x.v
      [] x.k = "num"  -> <<x.v>>
      [] x.k = "bool" -> <<IF x.v = "true" THEN "True" ELSE "False">>
      [] x.k = "none" -> <<"None">>
      [] OTHER        -> <<"<repr>">>

\* a Python dict keyed by decoded values, as <<key, value>> pairs
LookupHas(d, key) == \E i \in 1..Len(d) : PyEq(d[i][1], key)
LookupGet(d, key, default) ==
    IF LookupHas(d, key)
    THEN d[CHOOSE i \in 1..Len(d) : PyEq(d[i][1], key)][2]
    ELSE default
LookupSet(d, key, val) ==
    IF LookupHas(d, key)
    THEN [i \in 1..Len(d) |-> IF PyEq(d[i][1], key) THEN <<key, val>> ELSE d[i]]
    ELSE Append(d, <<key, val>>)

NoTables == [ok |-> TRUE, has |-> FALSE, val |-> JNone, err |-> "none"]
RaiseT(e) == [ok |-> FALSE, has |-> FALSE, val |-> JNone, err |-> e]

\* the guard  "model" not in self.raw_data or "tables" not in self.raw_data["model"]
\* and the read self.raw_data["model"]["tables"] (lines 133-140, 233-236,
\* 279-282, 343-349): has = FALSE is the early return
ModelTables(raw_data) ==
    LET c1 == PyIn(S("model"), raw_data) IN
    IF ~c1.ok THEN RaiseT(c1.err)
    ELSE IF ~c1.val THEN NoTables
    ELSE LET m == PyGetItem(raw_data, S("model")) IN
         IF ~m.ok THEN RaiseT(m.err)
         ELSE LET c2 == PyIn(S("tables"), m.val) IN
              IF ~c2.ok THEN RaiseT(c2.err)
              ELSE IF ~c2.val THEN NoTables
              ELSE LET tb == PyGetItem(m.val, S("tables")) IN
                   IF ~tb.ok THEN RaiseT(tb.err)
                   ELSE [ok |-> TRUE, has |-> TRUE, val |-> tb.val, err |-> "none"]

\* "source" in partition and "expression" in partition["source"], and then
\* partition["source"]["expression"] (lines 158-159): [ok, has, val, err]
PartitionExpression(partition) ==
    LET c1 == PyIn(S("source"), partition) IN
    IF ~c1.ok THEN RaiseT(c1.err)
    ELSE IF ~c1.val THEN NoTables
    ELSE LET src == PyGetItem(partition, S("source")) IN
         IF ~src.ok THEN RaiseT(src.err)
         ELSE LET c2 == PyIn(S("expression"), src.val) IN
              IF ~c2.ok THEN RaiseT(c2.err)
              ELSE IF ~c2.val THEN NoTables
              ELSE LET e == PyGetItem(src.val, S("expression")) IN
                   IF ~e.ok THEN RaiseT(e.err)
                   ELSE [ok |-> TRUE, has |-> TRUE, val |-> e.val, err |-> "none"]

RECURSIVE FirstExpression(_, _)
\* the loop  for partition in table["partitions"]  up to its break (lines
\* 157-161): the expression of the first partition that carries one
FirstExpression(partitions, i) ==
    IF i > Len(partitions) THEN NoTables
    ELSE With(PartitionExpression(partitions[i]), LAMBDA e :
         IF ~e.ok \/ e.has THEN e ELSE FirstExpression(partitions, i + 1))

\* the partitions a table's source is looked up in (lines 156-157): the
\* guard  "partitions" in table and table["partitions"]  and the iteration
TablePartitions(table) ==
    IF Has(table, S("partitions")) /\ Truthy(Val(table, S("partitions")))
    THEN PyIter(Val(table, S("partitions")))
    ELSE Ok(<<>>)

\* source_table of a table (lines 153-161; again 240-248, 354-362, 513-521)
SourceTableOf(table) ==
    LET parts == TablePartitions(table) IN
    IF ~parts.ok THEN parts
    ELSE With(FirstExpression(parts.val, 1), LAMBDA e :
         IF ~e.ok THEN Raise(e.err)
         ELSE IF e.has THEN _extract_source_table(e.val)
         ELSE Ok(DAX))

-----------------------------------------------------------------------------
(* _parse_tables (lines 131-172).  A builder gives [ok, out, err]: out are *)
(* the records appended before it returned or raised err.                  *)

Built(out)       == [ok |-> TRUE,  out |-> out, err |-> "none"]
Broke(out, e)    == [ok |-> FALSE, out |-> out, err |-> e]

\* one pass of the loop body (lines 146-172): [ok, skip, rec, err]
TableRecord(table) ==
    With(PyGet(table, S("name"), EmptyStr), LAMBDA table_name :
        With(SourceTableOf(table), LAMBDA source_table :
        With(IF Has(table, S("partitions"))
                           THEN PyLen(Val(table, S("partitions"))) ELSE Ok(0), LAMBDA partition_count :
        With([tbl |-> EmptyStr, src_tbl |-> DAX, n_part |-> 0], LAMBDA none :
      IF ~table_name.ok
        THEN [ok |-> FALSE, skip |-> FALSE, rec |-> none, err |-> table_name.err]
        ELSE IF PyEq(table_name.val, JStr(system_table))
        THEN [ok |-> TRUE, skip |-> TRUE, rec |-> none, err |-> "none"]
        ELSE IF ~source_table.ok
        THEN [ok |-> FALSE, skip |-> FALSE, rec |-> none, err |-> source_table.err]
        ELSE IF ~partition_count.ok
        THEN [ok |-> FALSE, skip |-> FALSE, rec |-> none, err |-> partition_count.err]
        ELSE [ok |-> TRUE, skip |-> FALSE, err |-> "none",
              rec |-> [tbl |-> table_name.val, src_tbl |-> source_table.val,
                       n_part |-> partition_count.val]]))))

RECURSIVE TablesLoop(_, _, _)
TablesLoop(tables, i, out) ==
    IF i > Len(tables) THEN Built(out)
    ELSE With(TableRecord(tables[i]), LAMBDA r :
         IF ~r.ok THEN Broke(out, r.err)
         ELSE TablesLoop(tables, i + 1, IF r.skip THEN out ELSE Append(out, r.rec)))

_parse_tables(raw_data) ==
    With(ModelTables(raw_data), LAMBDA mt :
    IF ~mt.ok THEN Broke(<<>>, mt.err)
    ELSE IF ~mt.has THEN Built(<<>>)
    ELSE LET n == PyLen(mt.val)            \* the print of line 138
             tables == PyIter(mt.val)
         IN  IF ~n.ok THEN Broke(<<>>, n.err)
             ELSE IF ~tables.ok THEN Broke(<<>>, tables.err)
             ELSE TablesLoop(tables.val, 1, <<>>))

-----------------------------------------------------------------------------
(* _extract_column_source_from_m_function (lines 277-307).                 *)

RECURSIVE FindTable(_, _, _)
\* the loop of lines 285-289: [ok, has, val, err]
FindTable(tables, i, table_name) ==
    IF i > Len(tables) THEN NoTables
    ELSE LET nm == PyGet(tables[i], S("name"), EmptyStr) IN
         IF ~nm.ok THEN RaiseT(nm.err)
         ELSE IF PyEq(nm.val, table_name)
              THEN [ok |-> TRUE, has |-> TRUE, val |-> tables[i], err |-> "none"]
              ELSE FindTable(tables, i + 1, table_name)

RECURSIVE RenameScan(_, _, _)
\* the loop of lines 295-305 over the partitions of the table
RenameScan(partitions, i, column_name) ==
    IF i > Len(partitions) THEN Ok(column_name)
    ELSE With(PartitionExpression(partitions[i]), LAMBDA e :
         IF ~e.ok THEN Raise(e.err)
         ELSE IF ~e.has THEN RenameScan(partitions, i + 1, column_name)
         ELSE With(_extract_rename_mappings_from_m(e.val), LAMBDA rename_mappings :
              IF ~rename_mappings.ok THEN rename_mappings
              ELSE IF column_name.k = "str"
                      /\ column_name.v \in {rename_mappings.val[j][1] :
                                               j \in 1..Len(rename_mappings.val)}
              THEN Ok(JStr(rename_mappings.val[
                       CHOOSE j \in 1..Len(rename_mappings.val) :
                           rename_mappings.val[j][1] = column_name.v][2]))
              ELSE RenameScan(partitions, i + 1, column_name)))

_extract_column_source_from_m_function(raw_data, table_name, column_name) ==
    With(ModelTables(raw_data), LAMBDA mt :
    IF ~mt.ok THEN Raise(mt.err)
    ELSE IF ~mt.has THEN Ok(column_name)
    ELSE LET tables == PyIter(mt.val) IN
         IF ~tables.ok THEN tables
         ELSE With(FindTable(tables.val, 1, table_name), LAMBDA target_table :
              IF ~target_table.ok THEN Raise(target_table.err)
              ELSE IF ~target_table.has \/ ~Truthy(target_table.val)
                      \/ ~Has(target_table.val, S("partitions"))
              THEN Ok(column_name)
              ELSE LET parts == PyIter(Val(target_table.val, S("partitions"))) IN
                   IF ~parts.ok THEN parts
                   ELSE RenameScan(parts.val, 1, column_name)))

-----------------------------------------------------------------------------
(* _parse_columns (lines 231-275).                                         *)

\* the record of one column (lines 252-275): [ok, val, err]
ColumnRecord(raw_data, table_name, source_table, column) ==
    LET column_name == PyGet(column, S("name"), EmptyStr) IN
    IF ~column_name.ok THEN column_name
    ELSE With(_extract_column_source_from_m_function(raw_data, table_name,
                                                         column_name.val), LAMBDA m :
           IF ~m.ok THEN m
             ELSE LET declared == IF PyEq(m.val, column_name.val)
                                  THEN DictGet(column, S("sourceColumn"), EmptyStr)
                                  ELSE m.val
                      source_column == IF ~Truthy(declared) THEN column_name.val
                                       ELSE declared
                      data_type == DictGet(column, S("dataType"), EmptyStr)
                  IN  Ok([tbl |-> table_name, src_tbl |-> source_table,
                          col |-> column_name.val, src_col |-> source_column,
                          dtype |-> data_type]))

RECURSIVE ColumnsOfTable(_, _, _, _, _, _)
ColumnsOfTable(raw_data, table_name, source_table, columns, j, out) ==
    IF j > Len(columns) THEN Built(out)
    ELSE With(ColumnRecord(raw_data, table_name, source_table, columns[j]), LAMBDA r :
         IF ~r.ok THEN Broke(out, r.err)
         ELSE ColumnsOfTable(raw_data, table_name, source_table, columns, j + 1,
                             Append(out, r.val)))

RECURSIVE ColumnsLoop(_, _, _, _)
ColumnsLoop(raw_data, tables, i, out) ==
    IF i > Len(tables) THEN Built(out)
    ELSE With(tables[i], LAMBDA table :
             With(PyGet(table, S("name"), EmptyStr), LAMBDA table_name :
             With(SourceTableOf(table), LAMBDA source_table :
           IF ~table_name.ok THEN Broke(out, table_name.err)
             ELSE IF ~source_table.ok THEN Broke(out, source_table.err)
             ELSE IF ~Has(table, S("columns")) THEN ColumnsLoop(raw_data, tables, i + 1, out)
             ELSE LET columns == PyIter(Val(table, S("columns"))) IN
                  IF ~columns.ok THEN Broke(out, columns.err)
                  ELSE With(ColumnsOfTable(raw_data, table_name.val, source_table.val,
                                               columns.val, 1, out), LAMBDA r :
                         IF ~r.ok THEN r
                           ELSE ColumnsLoop(raw_data, tables, i + 1, r.out)))))

_parse_columns(raw_data) ==
    With(ModelTables(raw_data), LAMBDA mt :
    IF ~mt.ok THEN Broke(<<>>, mt.err)
    ELSE IF ~mt.has THEN Built(<<>>)
    ELSE LET tables == PyIter(mt.val) IN
         IF ~tables.ok THEN Broke(<<>>, tables.err)
         ELSE ColumnsLoop(raw_data, tables.val, 1, <<>>))

-----------------------------------------------------------------------------
(* The lookups of _parse_measures (lines 346-377) and _parse_relationships *)
(* (lines 507-540).                                                        *)

\* source_column of one column for column_source_lookup (lines 369-375)
LookupSourceColumn(raw_data, table_name, column) ==
    LET column_name == PyGet(column, S("name"), EmptyStr) IN
    IF ~column_name.ok THEN column_name
    ELSE With(_extract_column_source_from_m_function(raw_data, table_name,
                                                         column_name.val), LAMBDA m :
           IF ~m.ok THEN m
             ELSE Ok(<<JStr(PyStr(table_name) \o <<".">> \o PyStr(column_name.val)),
                       IF ~PyEq(m.val, column_name.val) THEN m.val
                       ELSE DictGet(column, S("sourceColumn"), column_name.val)>>))

RECURSIVE ColumnLookupOfTable(_, _, _, _, _)
ColumnLookupOfTable(raw_data, table_name, columns, j, lookup) ==
    IF j > Len(columns) THEN Ok(lookup)
    ELSE With(LookupSourceColumn(raw_data, table_name, columns[j]), LAMBDA r :
         IF ~r.ok THEN r
         ELSE ColumnLookupOfTable(raw_data, table_name, columns, j + 1,
                                  LookupSet(lookup, r.val[1], r.val[2])))

RECURSIVE BuildLookups(_, _, _, _, _)
\* val is <<table_source_lookup, column_source_lookup>>
BuildLookups(raw_data, tables, i, table_source_lookup, column_source_lookup) ==
    IF i > Len(tables) THEN Ok(<<table_source_lookup, column_source_lookup>>)
    ELSE With(tables[i], LAMBDA table :
             With(PyGet(table, S("name"), EmptyStr), LAMBDA table_name :
             With(SourceTableOf(table), LAMBDA source_table :
           IF ~table_name.ok THEN table_name
             ELSE IF ~source_table.ok THEN source_table
             ELSE IF ~Hashable(table_name.val) THEN Raise("TypeError")
             ELSE LET tsl == LookupSet(table_source_lookup, table_name.val,
                                       source_table.val)
                      columns == IF Has(table, S("columns"))
                                 THEN PyIter(Val(table, S("columns"))) ELSE Ok(<<>>)
                  IN  IF ~columns.ok THEN columns
                      ELSE With(ColumnLookupOfTable(raw_data, table_name.val,
                                          columns.val, 1, column_source_lookup), LAMBDA csl :
                             IF ~csl.ok THEN csl
                               ELSE BuildLookups(raw_data, tables, i + 1, tsl, csl.val)))))

-----------------------------------------------------------------------------
(* _parse_measures, first part (lines 379-407): all_measures, measure_lookup*)

BSL == "\\"

RECURSIVE Unescape(_)
\* expression.replace('\\"', '"')
Unescape(s) ==
    IF Len(s) = 0 THEN <<>>
    ELSE IF Len(s) >= 2 /\ s[1] = BSL /\ s[2] = DQ
         THEN <<DQ>> \o Unescape(SubSeq(s, 3, Len(s)))
         ELSE <<s[1]>> \o Unescape(Tail(s))

\* expression of a measure as one str (lines 385-389, 627-630)
MeasureExpression(measure) ==
    LET expression == DictGet(measure, S("expression"), EmptyStr) IN
    IF expression.k = "list" THEN PyJoin(expression, SP) ELSE Ok(expression)

\* the record of one measure (lines 384-404)
MeasureEntry(table, measure) ==
    With(PyGet(measure, S("name"), EmptyStr), LAMBDA measure_name :
        With(MeasureExpression(measure), LAMBDA expression :
      IF ~measure_name.ok THEN measure_name
        ELSE IF ~expression.ok THEN expression
        ELSE IF expression.val.k # "str" THEN Raise("AttributeError")
        ELSE Ok([m_name  |-> measure_name.val,
                 m_expr  |-> Unescape(expression.val.v),
                 m_fmt   |-> DictGet(measure, S("formatString"), EmptyStr),
                 m_dir   |-> DictGet(measure, S("displayFolder"), EmptyStr),
                 m_owner |-> DictGet(table, S("name"), EmptyStr)])))

RECURSIVE MeasuresOfTable(_, _, _, _)
MeasuresOfTable(table, measures, j, all_measures) ==
    IF j > Len(measures) THEN Ok(all_measures)
    ELSE With(MeasureEntry(table, measures[j]), LAMBDA r :
         IF ~r.ok THEN r
         ELSE MeasuresOfTable(table, measures, j + 1, Append(all_measures, r.val)))

RECURSIVE CollectMeasures(_, _, _)
\* the loop of lines 380-404
CollectMeasures(tables, i, all_measures) ==
    IF i > Len(tables) THEN Ok(all_measures)
    ELSE LET c == PyIn(S("measures"), tables[i]) IN
         IF ~c.ok THEN c
         ELSE IF ~c.val THEN CollectMeasures(tables, i + 1, all_measures)
         ELSE With(PyGetItem(tables[i], S("measures")), LAMBDA ms :
                  With(IF ms.ok THEN PyIter(ms.val) ELSE ms, LAMBDA it :
                IF ~it.ok THEN it
                  ELSE With(MeasuresOfTable(tables[i], it.val, 1, all_measures), LAMBDA r :
                       IF ~r.ok THEN r ELSE CollectMeasures(tables, i + 1, r.val))))

RECURSIVE MeasureLookup(_, _, _)
\* {measure["度量值名称"]: measure for measure in all_measures} (line 407)
MeasureLookup(all_measures, i, lookup) ==
    IF i > Len(all_measures) THEN Ok(lookup)
    ELSE IF ~Hashable(all_measures[i].m_name) THEN Raise("TypeError")
    ELSE MeasureLookup(all_measures, i + 1,
                       LookupSet(lookup, all_measures[i].m_name, all_measures[i]))

\* lines 343-407: val is [table_source_lookup, column_source_lookup,
\* all_measures, measure_lookup]; has = FALSE is the early return of line 344
MeasuresSetup(raw_data) ==
    With(ModelTables(raw_data), LAMBDA mt :
    IF ~mt.ok THEN RaiseT(mt.err)
    ELSE IF ~mt.has THEN NoTables
    ELSE LET tables == PyIter(mt.val) IN
         IF ~tables.ok THEN RaiseT(tables.err)
         ELSE With(BuildLookups(raw_data, tables.val, 1, <<>>, <<>>), LAMBDA lk :
              IF ~lk.ok THEN RaiseT(lk.err)
              ELSE With(CollectMeasures(tables.val, 1, <<>>), LAMBDA am :
                   IF ~am.ok THEN RaiseT(am.err)
                   ELSE LET ml == MeasureLookup(am.val, 1, <<>>) IN
                        IF ~ml.ok THEN RaiseT(ml.err)
                        ELSE [ok |-> TRUE, has |-> TRUE, err |-> "none",
                              val |-> [table_source_lookup |-> lk.val[1],
                                       column_source_lookup |-> lk.val[2],
                                       all_measures |-> am.val,
                                       measure_lookup |-> ml.val]])))

-----------------------------------------------------------------------------
(* _parse_relationships (lines 502-578).                                   *)

RECURSIVE RelTableLookup(_, _, _)
\* the loop of lines 511-523
RelTableLookup(tables, i, table_source_lookup) ==
    IF i > Len(tables) THEN Ok(table_source_lookup)
    ELSE With(PyGet(tables[i], S("name"), EmptyStr), LAMBDA table_name :
             With(SourceTableOf(tables[i]), LAMBDA source_table :
           IF ~table_name.ok THEN table_name
             ELSE IF ~source_table.ok THEN source_table
             ELSE IF ~Hashable(table_name.val) THEN Raise("TypeError")
             ELSE RelTableLookup(tables, i + 1,
                      LookupSet(table_source_lookup, table_name.val, source_table.val))))

RECURSIVE RelColumnLookup(_, _, _, _)
\* the loop of lines 527-540
RelColumnLookup(raw_data, tables, i, column_source_lookup) ==
    IF i > Len(tables) THEN Ok(column_source_lookup)
    ELSE LET table_name == PyGet(tables[i], S("name"), EmptyStr) IN
         IF ~table_name.ok THEN table_name
         ELSE LET columns == IF Has(tables[i], S("columns"))
                             THEN PyIter(Val(tables[i], S("columns"))) ELSE Ok(<<>>)
              IN  IF ~columns.ok THEN columns
                  ELSE With(ColumnLookupOfTable(raw_data, table_name.val,
                                      columns.val, 1, column_source_lookup), LAMBDA csl :
                         IF ~csl.ok THEN csl
                           ELSE RelColumnLookup(raw_data, tables, i + 1, csl.val))

\* the record of one relationship (lines 546-578)
RelationshipRecord(relationship, table_source_lookup, column_source_lookup) ==
    IF relationship.k # "dict" THEN Raise("AttributeError")
    ELSE LET from_table   == DictGet(relationship, S("fromTable"), EmptyStr)
             from_column  == DictGet(relationship, S("fromColumn"), EmptyStr)
             to_table     == DictGet(relationship, S("toTable"), EmptyStr)
             to_column    == DictGet(relationship, S("toColumn"), EmptyStr)
             to_cardinality == DictGet(relationship, S("toCardinality"), EmptyStr)
             cross_filtering_behavior ==
                 DictGet(relationship, S("crossFilteringBehavior"), EmptyStr)
             is_active    == DictGet(relationship, S("isActive"), JBool("true"))
         IN  IF ~Hashable(from_table) \/ ~Hashable(to_table) THEN Raise("TypeError")
             ELSE LET from_source_table == LookupGet(table_source_lookup, from_table, DAX)
                      to_source_table == LookupGet(table_source_lookup, to_table, DAX)
                      from_source_column ==
                          LookupGet(column_source_lookup,
                                    JStr(PyStr(from_table) \o <<".">> \o PyStr(from_column)),
                                    from_column)
                      to_source_column ==
                          LookupGet(column_source_lookup,
                                    JStr(PyStr(to_table) \o <<".">> \o PyStr(to_column)),
                                    to_column)
                  IN  Ok([from_tbl |-> PyStr(from_table) \o <<NL, "(src_tbl: ">>
                                       \o from_source_table \o <<")">>,
                          from_col |-> PyStr(from_column) \o <<NL, "(src_col: ">>
                                       \o PyStr(from_source_column) \o <<")">>,
                          to_tbl   |-> PyStr(to_table) \o <<NL, "(src_tbl: ">>
                                       \o to_source_table \o <<")">>,
                          to_col   |-> PyStr(to_column) \o <<NL, "(src_col: ">>
                                       \o PyStr(to_source_column) \o <<")">>,
                          card     |-> IF Truthy(to_cardinality) THEN "many_to_many"
                                       ELSE "one_to_many",
                          dir      |-> IF Truthy(cross_filtering_behavior) THEN "both"
                                       ELSE "single",
                          active   |-> IF PyEq(is_active, JBool("false")) THEN "inactive"
                                       ELSE "active"])

\* a loop that drops a record equal to one it already has
RECURSIVE RelationshipsLoopUnique(_, _, _, _, _)
RelationshipsLoopUnique(relationships, i, tsl, csl, out) ==
    IF i > Len(relationships) THEN Built(out)
    ELSE With(RelationshipRecord(relationships[i], tsl, csl), LAMBDA r :
         IF ~r.ok THEN Broke(out, r.err)
         ELSE RelationshipsLoopUnique(relationships, i + 1, tsl, csl,
                                      IF r.val \in Range(out) THEN out
                                      ELSE Append(out, r.val)))

\* a loop that leaves out a relationship from a table the lookup has not
RECURSIVE RelationshipsLoopKnown(_, _, _, _, _)
RelationshipsLoopKnown(relationships, i, tsl, csl, out) ==
    IF i > Len(relationships) THEN Built(out)
    ELSE With(RelationshipRecord(relationships[i], tsl, csl), LAMBDA r :
         IF ~r.ok THEN Broke(out, r.err)
         ELSE RelationshipsLoopKnown(relationships, i + 1, tsl, csl,
                  IF LookupHas(tsl, DictGet(relationships[i], S("fromTable"), EmptyStr))
                  THEN Append(out, r.val) ELSE out))

RECURSIVE RelationshipsLoop(_, _, _, _, _)
RelationshipsLoop(relationships, i, tsl, csl, out) ==
    IF i > Len(relationships) THEN Built(out)
    ELSE With(RelationshipRecord(relationships[i], tsl, csl), LAMBDA r :
         IF ~r.ok THEN Broke(out, r.err)
         ELSE RelationshipsLoop(relationships, i + 1, tsl, csl, Append(out, r.val)))

_parse_relationships(raw_data) ==
    With(PyIn(S("model"), raw_data), LAMBDA c1 :
        With(PyGetItem(raw_data, S("model")), LAMBDA m :
        With(PyIn(S("relationships"), m.val), LAMBDA c2 :
        With(PyGetItem(m.val, S("tables")), LAMBDA tb :
        With(PyIter(tb.val), LAMBDA tables :
        With(RelTableLookup(tables.val, 1, <<>>), LAMBDA tsl :
        With(RelColumnLookup(raw_data, tables.val, 1, <<>>), LAMBDA csl :
        With(PyIter(Val(m.val, S("relationships"))), LAMBDA rl :
      IF ~c1.ok THEN Broke(<<>>, c1.err)
        ELSE IF ~c1.val THEN Built(<<>>)
        ELSE IF ~m.ok THEN Broke(<<>>, m.err)
        ELSE IF ~c2.ok THEN Broke(<<>>, c2.err)
        ELSE IF ~c2.val THEN Built(<<>>)
        ELSE IF ~tb.ok THEN Broke(<<>>, tb.err)
        ELSE IF ~tables.ok THEN Broke(<<>>, tables.err)
        ELSE IF ~tsl.ok THEN Broke(<<>>, tsl.err)
        ELSE IF ~csl.ok THEN Broke(<<>>, csl.err)
        ELSE IF ~rl.ok THEN Broke(<<>>, rl.err)
        ELSE RelationshipsLoop(rl.val, 1, tsl.val, csl.val, <<>>)))))))))

-----------------------------------------------------------------------------
(* _generate_overview (lines 608-676).                                     *)

RECURSIVE OverviewNames(_, _)
\* the loop of lines 618-621: the keys of table_measure_counts
OverviewNames(tables, i) ==
    IF i > Len(tables) THEN Ok(<<>>)
    ELSE LET table_name == PyGet(tables[i], S("name"), EmptyStr) IN
         IF ~table_name.ok THEN table_name
         ELSE IF ~Hashable(table_name.val) THEN Raise("TypeError")
         ELSE With(OverviewNames(tables, i + 1), LAMBDA rest :
              IF ~rest.ok THEN rest ELSE Ok(<<table_name.val>> \o rest.val))

RECURSIVE OverviewMeasures(_, _, _)
\* the measures of one table in the loop of lines 626-636: the sets
\* involved_tables of its measures
OverviewMeasures(measures, j, acc) ==
    IF j > Len(measures) THEN Ok(acc)
    ELSE IF measures[j].k # "dict" THEN Raise("AttributeError")
    ELSE With(MeasureExpression(measures[j]), LAMBDA expression :
         IF ~expression.ok THEN expression
         ELSE IF expression.val.k # "str" THEN Raise("TypeError")
         ELSE OverviewMeasures(measures, j + 1,
                  Append(acc, _extract_involved_tables(expression.val.v))))

RECURSIVE OverviewInvolved(_, _, _)
\* the loop of lines 624-636: involved_tables of every measure, in order
OverviewInvolved(tables, i, acc) ==
    IF i > Len(tables) THEN Ok(acc)
    ELSE IF ~Has(tables[i], S("measures")) THEN OverviewInvolved(tables, i + 1, acc)
    ELSE LET it == PyIter(Val(tables[i], S("measures"))) IN
         IF ~it.ok THEN it
         ELSE With(OverviewMeasures(it.val, 1, acc), LAMBDA r :
              IF ~r.ok THEN r ELSE OverviewInvolved(tables, i + 1, r.val))

\* a count of the measures that involve any table at all
MeasureCountAny(table_name, involved) ==
    Cardinality({j \in 1..Len(involved) : involved[j] # {}})

\* table_measure_counts.get(table_name, 0) after the loop of lines 624-636
MeasureCount(table_name, involved) ==
    Cardinality({j \in 1..Len(involved) :
                    table_name.k = "str" /\ table_name.v \in involved[j]})

\* instance_address.split('/')[0] when the address holds a '/' (lines 660-661)
Protocol(instance_address) ==
    LET p == NextIdx(instance_address, 1, SLASH) IN
    IF p > 0 THEN SubSeq(instance_address, 1, p - 1) ELSE <<>>

\* the record of one table (lines 640-676)
OverviewRecord(table, involved) ==
    LET table_name == DictGet(table, S("name"), EmptyStr)
        column_count == PyLen(DictGet(table, S("columns"), JList(<<>>)))
        partition_count == PyLen(DictGet(table, S("partitions"), JList(<<>>)))
        parts == TablePartitions(table)
        e == FirstExpression(parts.val, 1)
        source_table == _extract_source_table(e.val)
        conn == _extract_connection_info(e.val)
        rec(st, addr, db) ==
            Ok([tbl |-> table_name, src_tbl |-> st, n_col |-> column_count.val,
                n_meas |-> MeasureCount(table_name, involved),
                n_parts |-> partition_count.val, addr |-> addr, db |-> db,
                proto |-> Protocol(addr)])
    IN  IF ~column_count.ok THEN column_count
        ELSE IF ~partition_count.ok THEN partition_count
        ELSE IF ~parts.ok THEN parts
        ELSE IF ~e.ok THEN Raise(e.err)
        ELSE IF ~e.has THEN rec(DAX, <<>>, <<>>)
        ELSE IF ~source_table.ok THEN source_table
        ELSE IF ~conn.ok THEN conn
        ELSE rec(source_table.val, conn.val[1], conn.val[2])

RECURSIVE OverviewLoop(_, _, _, _)
OverviewLoop(tables, i, involved, out) ==
    IF i > Len(tables) THEN Built(out)
    ELSE With(OverviewRecord(tables[i], involved), LAMBDA r :
         IF ~r.ok THEN Broke(out, r.err)
         ELSE OverviewLoop(tables, i + 1, involved, Append(out, r.val)))

_generate_overview(raw_data) ==
    With(PyIn(S("model"), raw_data), LAMBDA c1 :
        With(PyGetItem(raw_data, S("model")), LAMBDA m :
        With(PyGet(m.val, S("tables"), JList(<<>>)), LAMBDA tb :
        With(PyIter(tb.val), LAMBDA tables :
        With(OverviewNames(tables.val, 1), LAMBDA names :
        With(OverviewInvolved(tables.val, 1, <<>>), LAMBDA involved :
      IF ~c1.ok THEN Broke(<<>>, c1.err)
        ELSE IF ~c1.val THEN Built(<<>>)
        ELSE IF ~m.ok THEN Broke(<<>>, m.err)
        ELSE IF ~tb.ok THEN Broke(<<>>, tb.err)
        ELSE IF ~tables.ok THEN Broke(<<>>, tables.err)
        ELSE IF ~names.ok THEN Broke(<<>>, names.err)
        ELSE IF ~involved.ok THEN Broke(<<>>, involved.err)
        ELSE OverviewLoop(tables.val, 1, involved.val, <<>>)))))))

-----------------------------------------------------------------------------
(* _resolve_all_measure_references (lines 580-606).                        *)

\* the known names among the matches, repeated as often as they occur
ReferencedMeasuresRepeated(matches, i, measures_info, referenced_measures) ==
    SelectSeq(matches, LAMBDA match :
        \E j \in 1..Len(measures_info) : PyEq(measures_info[j].m_name, JStr(match)))

RECURSIVE ReferencedMeasures(_, _, _, _)
\* referenced_measures of one record (lines 590-600), from the i-th match on
ReferencedMeasures(matches, i, measures_info, referenced_measures) ==
    IF i > Len(matches) THEN referenced_measures
    ELSE ReferencedMeasures(matches, i + 1, measures_info,
             IF (\E j \in 1..Len(measures_info) :
                     PyEq(measures_info[j].m_name, JStr(matches[i])))
                /\ matches[i] \notin Range(referenced_measures)
             THEN Append(referenced_measures, matches[i])
             ELSE referenced_measures)

\* self.measures_info after the call: every record with its m_refs
_resolve_all_measure_references(measures_info) ==
    [i \in 1..Len(measures_info) |->
        [m_name   |-> measures_info[i].m_name,
         m_expr   |-> measures_info[i].m_expr,
         m_fmt    |-> measures_info[i].m_fmt,
         m_dir    |-> measures_info[i].m_dir,
         m_tables |-> measures_info[i].m_tables,
         m_cols   |-> measures_info[i].m_cols,
         m_refs   |-> Join(ReferencedMeasures(FindBracketed(measures_info[i].m_expr, 1),
                                              1, measures_info, <<>>), NL)]]

-----------------------------------------------------------------------------
(* The measure loop of _parse_measures (lines 410-478), one measure.       *)

RECURSIVE SetOrder(_)
\* the iteration order of a set of str under one hash seed
SetOrder(set) ==
    IF set = {} THEN <<>>
    ELSE LET e == CHOOSE e \in set : TRUE IN <<e>> \o SetOrder(set \ {e})

Reverse(seq) == [i \in 1..Len(seq) |-> seq[Len(seq) + 1 - i]]

\* the iteration order of a set of str in a process whose hash seed is seed:
\* the order depends on the seed (str hashes are salted per process)
IterSet(set, seed) == IF seed = 0 THEN SetOrder(set) ELSE Reverse(SetOrder(set))

\* formatted_tables (lines 445-448)
FormattedTables(all_tables, table_source_lookup, seed) ==
    LET order == IterSet(all_tables, seed) IN
    [i \in 1..Len(order) |->
        order[i] \o <<" (src_tbl: ">>
                 \o LookupGet(table_source_lookup, JStr(order[i]), DAX) \o <<")">>]

RECURSIVE Flatten(_)
Flatten(seqs) == IF Len(seqs) = 0 THEN <<>> ELSE seqs[1] \o Flatten(Tail(seqs))

\* table_related_columns of one table (lines 454-463), formatted (466-468)
FormattedColumnsOf(table_involved, all_columns, expression, column_source_lookup, seed) ==
    With(Range(FindQualified(expression, table_involved, 1)), LAMBDA column_matches :
        With(IterSet(all_columns, seed), LAMBDA cols :
        With(SelectSeq(cols, LAMBDA c : c \in column_matches), LAMBDA related :
      [i \in 1..Len(related) |->
            related[i] \o <<" (src_col: ">>
              \o PyStr(LookupGet(column_source_lookup,
                                 JStr(table_involved \o <<".">> \o related[i]),
                                 JStr(related[i])))
              \o <<")">>])))

\* formatted_columns (lines 451-468)
FormattedColumns(all_tables, all_columns, expression, column_source_lookup, seed) ==
    LET order == IterSet(all_tables, seed) IN
    Flatten([i \in 1..Len(order) |->
                FormattedColumnsOf(order[i], all_columns, expression,
                                   column_source_lookup, seed)])

\* the record appended at lines 471-478
MeasureRecord(measure, all_tables, all_columns, table_source_lookup, column_source_lookup, seed) ==
    [m_name   |-> measure.m_name,
     m_expr   |-> measure.m_expr,
     m_fmt    |-> measure.m_fmt,
     m_dir    |-> measure.m_dir,
     m_tables |-> Join(FormattedTables(all_tables, table_source_lookup, seed), NL),
     m_cols   |-> Join(FormattedColumns(all_tables, all_columns, measure.m_expr,
                                        column_source_lookup, seed), NL)]

-----------------------------------------------------------------------------
(* parse_file (lines 53-129), step by step.  A thread is one call; its     *)
(* steps are the statements of parse_file, and inside _parse_measures the  *)
(* calls and returns of resolve_measure_references.                        *)

Threads   == {1, 2}
Instances == {1, 2}
Seeds     == {0, 1}

\* the depth of resolve_measure_references at which the interpreter raises
\* RecursionError (sys.getrecursionlimit() frames in CPython), scaled down
MaxDepth == 6

NoResult == [pending |-> TRUE]

NoLocals ==
    [parsed |-> JNone, table_source_lookup |-> <<>>, column_source_lookup |-> <<>>,
     all_measures |-> <<>>, measure_lookup |-> <<>>, mi |-> 0,
     all_tables |-> {}, all_columns |-> {}, visited_measures |-> {},
     visits |-> <<>>, stack |-> <<>>]

\* the attributes __init__ binds (lines 45-51): the five lists are the list
\* objects first .. first + 4 of the heap
NewFields(first) ==
    [raw_data |-> JNone, tables_info |-> first, columns_info |-> first + 1,
     measures_info |-> first + 2, relationships_info |-> first + 3,
     overview_info |-> first + 4]

FiveLists == << <<>>, <<>>, <<>>, <<>>, <<>> >>

Me(t) == fields[self[t]]

\* a parse_file that takes a text that does not decode for an empty document
DecodeAccepted == [success |-> TRUE, error |-> <<>>]

\* the return of line 69
DecodeFailure == [success |-> FALSE, error |-> <<"cannot parse as JSON: ", "JSONDecodeError">>]

\* the dict of line 129: str(e) is the one atom err
Failure(err) == [success |-> FALSE, error |-> <<err>>]

\* a parse_file without the handler of line 127: the exception leaves the call
HandlerAbsent(t, err) ==
    /\ pc' = [pc EXCEPT ![t] = "raised"]
    /\ result' = result
    /\ loc' = [loc EXCEPT ![t] = NoLocals]

\* the handler of lines 127-129: the call returns the failure dict
Handler(t, err) ==
    /\ pc' = [pc EXCEPT ![t] = "done"]
    /\ result' = [result EXCEPT ![t] = Failure(err)]
    /\ loc' = [loc EXCEPT ![t] = NoLocals]

\* a reset that goes on with the lists the instance has
ResetKeeping(t) ==
    /\ pc[t] = "call"
    /\ fields' = [fields EXCEPT ![self[t]].raw_data = JNone]
    /\ pc' = [pc EXCEPT ![t] = "loads"]
    /\ UNCHANGED <<text, self, hashSeed, heap, loc, result>>

\* a reset that empties the lists the instance has, in place
ResetClearing(t) ==
    /\ pc[t] = "call"
    /\ fields' = [fields EXCEPT ![self[t]].raw_data = JNone]
    /\ heap' = [i \in DOMAIN heap |->
                   IF i \in {Me(t).tables_info, Me(t).columns_info, Me(t).measures_info,
                             Me(t).relationships_info, Me(t).overview_info}
                   THEN <<>> ELSE heap[i]]
    /\ pc' = [pc EXCEPT ![t] = "loads"]
    /\ UNCHANGED <<text, self, hashSeed, loc, result>>

\* lines 56-62
Reset(t) ==
    /\ pc[t] = "call"
    /\ fields' = [fields EXCEPT ![self[t]] = NewFields(Len(heap) + 1)]
    /\ heap' = heap \o FiveLists
    /\ pc' = [pc EXCEPT ![t] = "loads"]
    /\ UNCHANGED <<text, self, hashSeed, loc, result>>

\* lines 65-69
JsonLoads(t) ==
    /\ pc[t] = "loads"
    /\ LET parsed == json_loads(text[t]) IN
       IF parsed.ok
       THEN /\ loc' = [loc EXCEPT ![t].parsed = parsed.val]
            /\ pc' = [pc EXCEPT ![t] = "locate"]
            /\ UNCHANGED result
       ELSE /\ result' = [result EXCEPT ![t] = DecodeFailure]
            /\ pc' = [pc EXCEPT ![t] = "done"]
            /\ UNCHANGED loc
    /\ UNCHANGED <<text, self, hashSeed, fields, heap>>

\* lines 97-103
Locate(t) ==
    /\ pc[t] = "locate"
    /\ LET model_obj == _locate_model(loc[t].parsed) IN
       fields' = [fields EXCEPT ![self[t]].raw_data =
                     IF model_obj.found
                     THEN JDict(<< <<S("model"), model_obj.val>> >>)
                     ELSE loc[t].parsed]
    /\ pc' = [pc EXCEPT ![t] = "tables"]
    /\ UNCHANGED <<text, self, hashSeed, heap, loc, result>>

\* a builder call of lines 106-110: its records are appended to the list
\* object the attribute names; a raise goes to the handler
RunBuilder(t, list, built, next) ==
    /\ heap' = [heap EXCEPT ![list] = @ \o built.out]
    /\ IF built.ok
       THEN /\ pc' = [pc EXCEPT ![t] = next]
            /\ UNCHANGED <<loc, result>>
       ELSE Handler(t, built.err)
    /\ UNCHANGED <<text, self, hashSeed, fields>>

\* line 106
ParseTables(t) ==
    /\ pc[t] = "tables"
    /\ RunBuilder(t, Me(t).tables_info, _parse_tables(Me(t).raw_data), "columns")

\* line 107
ParseColumns(t) ==
    /\ pc[t] = "columns"
    /\ RunBuilder(t, Me(t).columns_info, _parse_columns(Me(t).raw_data), "measures")

\* line 108, up to the loop of line 410
MeasuresBegin(t) ==
    /\ pc[t] = "measures"
    /\ LET st == MeasuresSetup(Me(t).raw_data) IN
       IF ~st.ok THEN Handler(t, st.err)
       ELSE IF ~st.has
       THEN /\ pc' = [pc EXCEPT ![t] = "relationships"]
            /\ UNCHANGED <<loc, result>>
       ELSE /\ loc' = [loc EXCEPT ![t] =
                          [@ EXCEPT !.table_source_lookup = st.val.table_source_lookup,
                                    !.column_source_lookup = st.val.column_source_lookup,
                                    !.all_measures = st.val.all_measures,
                                    !.measure_lookup = st.val.measure_lookup,
                                    !.mi = 1]]
            /\ pc' = [pc EXCEPT ![t] = "m_next"]
            /\ UNCHANGED result
    /\ UNCHANGED <<text, self, hashSeed, fields, heap>>

\* the loop head of line 410 and lines 411-421, 442: the next measure, and
\* the first call of resolve_measure_references on its own expression
MeasureNext(t) ==
    /\ pc[t] = "m_next"
    /\ IF loc[t].mi > Len(loc[t].all_measures)
       THEN /\ pc' = [pc EXCEPT ![t] = "relationships"]
            /\ loc' = [loc EXCEPT ![t] = [NoLocals EXCEPT !.parsed = loc[t].parsed]]
       ELSE LET expression == loc[t].all_measures[loc[t].mi].m_expr IN
            /\ loc' = [loc EXCEPT ![t] =
                          [@ EXCEPT !.all_tables = _extract_involved_tables(expression),
                                    !.all_columns = _extract_involved_columns(expression),
                                    !.visited_measures = {},
                                    !.visits = <<>>,
                                    !.stack = <<[matches |-> FindBracketed(expression, 1),
                                                 i |-> 1]>>]]
            /\ pc' = [pc EXCEPT ![t] = "m_resolve"]
    /\ UNCHANGED <<text, self, hashSeed, fields, heap, result>>

Top(t) == loc[t].stack[Len(loc[t].stack)]
Match(t) == Top(t).matches[Top(t).i]

\* a resolve_measure_references that follows no reference
IsNoReference(measure_lookup, visited_measures, match) == FALSE

\* a resolve_measure_references that does not look at visited_measures
IsReference(measure_lookup, visited_measures, match) ==
    LookupHas(measure_lookup, JStr(match))

\* the test of line 430
IsNewReference(measure_lookup, visited_measures, match) ==
    LookupHas(measure_lookup, JStr(match)) /\ match \notin visited_measures

\* lines 428-439 for a match that passes the test of line 430: the match is
\* marked visited, its tables and columns are merged, and the function calls
\* itself on the expression of the referenced measure
ResolveVisit(t) ==
    /\ pc[t] = "m_resolve"
    /\ Len(loc[t].stack) > 0
    /\ Top(t).i <= Len(Top(t).matches)
    /\ IsNewReference(loc[t].measure_lookup, loc[t].visited_measures, Match(t))
    /\ LET referenced_measure == LookupGet(loc[t].measure_lookup, JStr(Match(t)), JNone)
           n == Len(loc[t].stack)
       IN  IF n >= MaxDepth
           THEN Handler(t, "RecursionError")
           ELSE /\ loc' = [loc EXCEPT ![t] =
                     [@ EXCEPT
                        !.visited_measures = @ \cup {Match(t)},
                        !.visits = Append(@, Match(t)),
                        !.all_tables =
                            @ \cup _extract_involved_tables(referenced_measure.m_expr),
                        !.all_columns =
                            @ \cup _extract_involved_columns(referenced_measure.m_expr),
                        !.stack = Append([@ EXCEPT ![n].i = @ + 1],
                                         [matches |->
                                              FindBracketed(referenced_measure.m_expr, 1),
                                          i |-> 1])]]
                /\ pc' = pc
                /\ result' = result
    /\ UNCHANGED <<text, self, hashSeed, fields, heap>>

\* lines 428-430 for a match that fails the test: the loop goes on
ResolveSkip(t) ==
    /\ pc[t] = "m_resolve"
    /\ Len(loc[t].stack) > 0
    /\ Top(t).i <= Len(Top(t).matches)
    /\ ~IsNewReference(loc[t].measure_lookup, loc[t].visited_measures, Match(t))
    /\ loc' = [loc EXCEPT ![t].stack[Len(loc[t].stack)].i = @ + 1]
    /\ UNCHANGED <<text, pc, self, hashSeed, fields, heap, result>>

\* the end of the loop of line 428: the call returns to its caller
ResolveReturn(t) ==
    /\ pc[t] = "m_resolve"
    /\ Len(loc[t].stack) > 0
    /\ Top(t).i > Len(Top(t).matches)
    /\ loc' = [loc EXCEPT ![t].stack = SubSeq(@, 1, Len(@) - 1)]
    /\ pc' = [pc EXCEPT ![t] = IF Len(loc[t].stack) = 1 THEN "m_render" ELSE "m_resolve"]
    /\ UNCHANGED <<text, self, hashSeed, fields, heap, result>>

\* lines 444-478: the record of the measure is appended
MeasureRender(t) ==
    /\ pc[t] = "m_render"
    /\ heap' = [heap EXCEPT ![Me(t).measures_info] =
                   Append(@, MeasureRecord(loc[t].all_measures[loc[t].mi],
                                           loc[t].all_tables, loc[t].all_columns,
                                           loc[t].table_source_lookup,
                                           loc[t].column_source_lookup, hashSeed[t]))]
    /\ loc' = [loc EXCEPT ![t].mi = @ + 1]
    /\ pc' = [pc EXCEPT ![t] = "m_next"]
    /\ UNCHANGED <<text, self, hashSeed, fields, result>>

\* line 109
ParseRelationships(t) ==
    /\ pc[t] = "relationships"
    /\ RunBuilder(t, Me(t).relationships_info, _parse_relationships(Me(t).raw_data),
                  "overview")

\* line 110
GenerateOverview(t) ==
    /\ pc[t] = "overview"
    /\ RunBuilder(t, Me(t).overview_info, _generate_overview(Me(t).raw_data), "refs")

\* line 111: the records of self.measures_info get their m_refs
ResolveAll(t) ==
    /\ pc[t] = "refs"
    /\ heap' = [heap EXCEPT ![Me(t).measures_info] = _resolve_all_measure_references(@)]
    /\ pc' = [pc EXCEPT ![t] = "return"]
    /\ UNCHANGED <<text, self, hashSeed, fields, loc, result>>

\* lines 119-126: the dict returned names the list objects of the instance
Return(t) ==
    /\ pc[t] = "return"
    /\ result' = [result EXCEPT ![t] =
                     [success |-> TRUE,
                      tables |-> Me(t).tables_info,
                      columns |-> Me(t).columns_info,
                      measures |-> Me(t).measures_info,
                      relationships |-> Me(t).relationships_info,
                      overview |-> Me(t).overview_info]]
    /\ pc' = [pc EXCEPT ![t] = "done"]
    /\ loc' = [loc EXCEPT ![t] = NoLocals]
    /\ UNCHANGED <<text, self, hashSeed, fields, heap>>

Next ==
    \E t \in Threads :
        \/ Reset(t)
        \/ JsonLoads(t)
        \/ Locate(t)
        \/ ParseTables(t)
        \/ ParseColumns(t)
        \/ MeasuresBegin(t)
        \/ MeasureNext(t)
        \/ ResolveVisit(t)
        \/ ResolveSkip(t)
        \/ ResolveReturn(t)
        \/ MeasureRender(t)
        \/ ParseRelationships(t)
        \/ GenerateOverview(t)
        \/ ResolveAll(t)
        \/ Return(t)

-----------------------------------------------------------------------------
(* parse_file as one function of the text and the hash seed: what a call   *)
(* returns when nothing else touches the instance it runs on.              *)

RECURSIVE ResolveFrom(_, _, _, _, _)
\* resolve_measure_references (lines 423-439) on the matches of one
\* expression, at the given call depth; acc is <<ok, all_tables,
\* all_columns, visited_measures>>
ResolveFrom(matches, i, measure_lookup, depth, acc) ==
    IF i > Len(matches) \/ ~acc.ok THEN acc
    ELSE IF ~IsNewReference(measure_lookup, acc.visited_measures, matches[i])
    THEN ResolveFrom(matches, i + 1, measure_lookup, depth, acc)
    ELSE IF depth >= MaxDepth THEN [acc EXCEPT !.ok = FALSE]
    ELSE LET referenced_measure == LookupGet(measure_lookup, JStr(matches[i]), JNone)
             merged == [ok |-> TRUE,
                        visited_measures |-> acc.visited_measures \cup {matches[i]},
                        all_tables |-> acc.all_tables \cup
                            _extract_involved_tables(referenced_measure.m_expr),
                        all_columns |-> acc.all_columns \cup
                            _extract_involved_columns(referenced_measure.m_expr)]
             inner == ResolveFrom(FindBracketed(referenced_measure.m_expr, 1), 1,
                                  measure_lookup, depth + 1, merged)
         IN  ResolveFrom(matches, i + 1, measure_lookup, depth, inner)

RECURSIVE MeasuresLoop(_, _, _, _)
\* the loop of lines 410-478
MeasuresLoop(st, i, seed, out) ==
    IF i > Len(st.all_measures) THEN Built(out)
    ELSE With(st.all_measures[i].m_expr, LAMBDA expression :
             With(ResolveFrom(FindBracketed(expression, 1), 1, st.measure_lookup, 1,
                                [ok |-> TRUE, visited_measures |-> {},
                                 all_tables |-> _extract_involved_tables(expression),
                                 all_columns |-> _extract_involved_columns(expression)]), LAMBDA acc :
           IF ~acc.ok THEN Broke(out, "RecursionError")
             ELSE MeasuresLoop(st, i + 1, seed,
                      Append(out, MeasureRecord(st.all_measures[i], acc.all_tables,
                                                acc.all_columns, st.table_source_lookup,
                                                st.column_source_lookup, seed)))))

\* lines 341-478
_parse_measures(raw_data, seed) ==
    With(MeasuresSetup(raw_data), LAMBDA st :
    IF ~st.ok THEN Broke(<<>>, st.err)
    ELSE IF ~st.has THEN Built(<<>>)
    ELSE MeasuresLoop(st.val, 1, seed, <<>>))

\* lines 53-129; the five collections are given by their contents
parse_file(file_content, seed) ==
    With(json_loads(file_content), LAMBDA parsed :
    IF ~parsed.ok THEN DecodeFailure
    ELSE With(_locate_model(parsed.val), LAMBDA model_obj :
             With(IF model_obj.found
                         THEN JDict(<< <<S("model"), model_obj.val>> >>)
                         ELSE parsed.val, LAMBDA raw_data :
             With(_parse_tables(raw_data), LAMBDA tables :
             With(_parse_columns(raw_data), LAMBDA columns :
             With(_parse_measures(raw_data, seed), LAMBDA measures :
             With(_parse_relationships(raw_data), LAMBDA relationships :
             With(_generate_overview(raw_data), LAMBDA overview :
           IF ~tables.ok THEN Failure(tables.err)
             ELSE IF ~columns.ok THEN Failure(columns.err)
             ELSE IF ~measures.ok THEN Failure(measures.err)
             ELSE IF ~relationships.ok THEN Failure(relationships.err)
             ELSE IF ~overview.ok THEN Failure(overview.err)
             ELSE [success |-> TRUE,
                   tables |-> tables.out,
                   columns |-> columns.out,
                   measures |-> _resolve_all_measure_references(measures.out),
                   relationships |-> relationships.out,
                   overview |-> overview.out]))))))))

\* what the caller of thread t sees in the dict it got: the lists by contents
Returned(t) ==
    IF "success" \in DOMAIN result[t] /\ result[t].success
    THEN [success |-> TRUE,
          tables |-> heap[result[t].tables],
          columns |-> heap[result[t].columns],
          measures |-> heap[result[t].measures],
          relationships |-> heap[result[t].relationships],
          overview |-> heap[result[t].overview]]
    ELSE result[t]

-----------------------------------------------------------------------------
(* The documents and texts the calls are given.                            *)

RECURSIVE Encode(_), EncodeItems(_, _), EncodeMembers(_, _)
\* the token sequence of the JSON text of a value
Encode(val) ==
    CASE val.k = "dict" -> <<P("{")>> \o EncodeMembers(val.v, 1) \o <<P("}")>>
      [] val.k = "list" -> <<P("[")>> \o EncodeItems(val.v, 1) \o <<P("]")>>
      [] val.k = "str"  -> <<TStr(val.v)>>
      [] val.k = "num"  -> <<TNum(val.v)>>
      [] OTHER          -> <<TLit(val.v)>>

EncodeItems(items, i) ==
    IF i > Len(items) THEN <<>>
    ELSE Encode(items[i]) \o (IF i < Len(items) THEN <<P(",")>> ELSE <<>>)
         \o EncodeItems(items, i + 1)

EncodeMembers(pairs, i) ==
    IF i > Len(pairs) THEN <<>>
    ELSE <<TStr(pairs[i][1]), P(":")>> \o Encode(pairs[i][2])
         \o (IF i < Len(pairs) THEN <<P(",")>> ELSE <<>>)
         \o EncodeMembers(pairs, i + 1)

Member(key, val) == <<S(key), val>>
\* an object that carries the members whose value is given; Absent drops one
Absent == [k |-> "absent", v |-> "absent"]
Obj(members) == JDict(SelectSeq(members, LAMBDA m : m[2] # Absent))

\* DAX expressions
ColRef(tbl, col) == <<Q>> \o tbl \o <<Q, LB, col, RB>>          \* 'tbl'[col]
MRef(name) == <<LB, name, RB>>                                   \* [name]

Partition(lines) ==
    Obj(<<Member("name", St("p")),
          Member("source", Obj(<<Member("type", St("m")),
                                 Member("expression", lines)>>))>>)
ItemLines == JList(<<JStr(<<"let">>), JStr(<<"Source", EQ, "x", LB, "Item", EQ, DQ, "src", DQ, RB>>)>>)

Column(name, source) ==
    Obj(<<Member("name", St(name)), Member("dataType", St("int64")),
          Member("sourceColumn", source)>>)

Measure(name, expression) ==
    Obj(<<Member("name", St(name)), Member("expression", JStr(expression))>>)

Table(name, partitions, columns, measures) ==
    Obj(<<Member("name", name), Member("partitions", partitions),
          Member("columns", columns), Member("measures", measures)>>)

Relationship(from, to) ==
    Obj(<<Member("fromTable", from), Member("fromColumn", St("x")),
          Member("toTable", to), Member("toColumn", St("y"))>>)

Model(tables, relationships) ==
    Obj(<<Member("tables", tables), Member("relationships", relationships)>>)

\* table T: a partition, a column and the measures a = 'T'[x] + [b] + [x],
\* b = 'U'[y], c = 'User_...'[y]
TableT ==
    Table(St("T"), JList(<<Partition(ItemLines)>>),
          JList(<<Column("x", St("x0"))>>),
          JList(<<Measure("a", ColRef(<<"T">>, "x") \o <<"+">> \o MRef("b")),
                  Measure("b", ColRef(<<"U">>, "y")),
                  Measure("c", ColRef(system_table, "y"))>>))
TableU == Table(St("U"), Absent, JList(<<Column("y", Absent)>>), Absent)
TableSys ==
    Table(JStr(system_table), JList(<<Partition(ItemLines)>>),
          JList(<<Column("y", St("y0"))>>),
          JList(<<Measure("z", ColRef(<<"T">>, "x"))>>))

\* the values of "tables" and of "relationships" the documents take
TablesValues ==
    {Absent, JList(<<>>), JList(<<TableT>>), JList(<<TableT, TableU>>),
     JList(<<TableSys>>), JList(<<TableT, TableSys>>),
     JNum("5"), St("x"), JNone, JDict(<<>>), JList(<<St("x")>>),
     JList(<<TableU, JNum("5")>>),
     JList(<<Table(St("V"), JNum("5"), JList(<<>>), JList(<<>>))>>),
     JList(<<Table(St("V"), Absent, St("x"), Absent)>>),
     JList(<<Table(St("V"), Absent, Absent, JList(<<JNum("5")>>))>>),
     JList(<<Table(JList(<<>>), Absent, Absent, JList(<<Measure("a", <<"1">>)>>))>>)}

RelationshipsValues ==
    {Absent, JList(<<>>), JList(<<Relationship(St("T"), St("U"))>>),
     JList(<<Relationship(JStr(system_table), St("T"))>>),
     JList(<<St("x")>>), JNum("5")}

Models == {Model(tv, rv) : tv \in TablesValues, rv \in RelationshipsValues}

\* the places a document carries its model in
Wrapped(m) ==
    {Obj(<<Member("model", m)>>),
     Obj(<<Member("SemanticModel", m)>>),
     Obj(<<Member("createOrReplace", Obj(<<Member("database", Obj(<<Member("model", m)>>))>>))>>),
     JList(<<JNum("1"), Obj(<<Member("model", m)>>)>>),
     m}

\* documents that carry nothing parse_file takes for a model
Modelless ==
    {JNone, JBool("true"), JNum("5"), St("x"), St("model"), JStr(<<"a", "model", "b">>),
     JList(<<>>), JList(<<St("model")>>), JList(<<JNum("5")>>), JDict(<<>>),
     Obj(<<Member("other", JNum("5"))>>),
     Obj(<<Member("model", JNum("5"))>>), Obj(<<Member("model", St("x"))>>),
     Obj(<<Member("model", St("tables"))>>), Obj(<<Member("model", JNone)>>),
     Obj(<<Member("model", JList(<<>>))>>), Obj(<<Member("model", JList(<<St("tables")>>))>>),
     Obj(<<Member("tables", JNum("5"))>>),
     Obj(<<Member("SemanticModel", St("x"))>>),
     JList(<<Obj(<<Member("model", JBool("false"))>>)>>)}

\* documents with several places a model may be taken from
ModelOne == Model(JList(<<TableU>>), JList(<<>>))
ModelTwo == Model(JList(<<TableT, TableU>>), JList(<<>>))
Competing ==
    {Obj(<<Member("model", ModelOne), Member("SemanticModel", ModelTwo)>>),
     Obj(<<Member("SemanticModel", ModelTwo), Member("model", ModelOne)>>),
     Obj(<<Member("model", JNum("5")), Member("SemanticModel", ModelTwo)>>),
     Obj(<<Member("tables", JList(<<TableU>>)), Member("SemanticModel", ModelTwo)>>),
     Obj(<<Member("model", St("x")), Member("tables", JList(<<TableU>>)),
           Member("relationships", JList(<<>>))>>),
     Obj(<<Member("a", Obj(<<Member("tables", JNum("5")),
                             Member("b", Obj(<<Member("model", ModelOne)>>))>>)),
           Member("c", Obj(<<Member("model", ModelTwo)>>))>>),
     Obj(<<Member("a", JList(<<Obj(<<Member("other", JNum("5"))>>)>>)),
           Member("c", Obj(<<Member("SemanticModel", ModelTwo)>>))>>),
     JList(<<JList(<<ModelOne>>), Obj(<<Member("model", ModelTwo)>>)>>),
     Obj(<<Member("a", Obj(<<Member("b", JNum("5"))>>)), Member("tables", St("x"))>>),
     Obj(<<Member("model", JDict(<<>>)), Member("tables", JList(<<TableU>>)),
           Member("relationships", JList(<<>>))>>),
     Obj(<<Member("model", Obj(<<Member("relationships", JList(<<>>))>>)),
           Member("tables", JList(<<TableU>>)), Member("relationships", JList(<<>>))>>)}

Docs == Modelless \cup Competing \cup UNION {Wrapped(m) : m \in Models}

\* texts that are no JSON: a text cut short, a text with a token too many,
\* a text with a token that is none
Broken(toks) ==
    {SubSeq(toks, 1, n) : n \in 0..(Len(toks) - 1)}
        \cup {toks \o <<tok>> : tok \in {P("}"), P(","), TNum("5"), TBad}}
        \cup {<<TBad>> \o toks}

Texts ==
    {Encode(d) : d \in Docs}
        \cup Broken(Encode(Obj(<<Member("model", Model(JList(<<TableU>>), JList(<<>>)))>>)))
        \cup Broken(Encode(JList(<<JNum("5")>>)))
        \cup Broken(Encode(St("x")))

Off == "off"

\* one call on a fresh instance
Init ==
    /\ \E file_content \in Texts :
           text = [t \in Threads |-> IF t = 1 THEN file_content ELSE <<>>]
    /\ pc = [t \in Threads |-> IF t = 1 THEN "call" ELSE Off]
    /\ self = [t \in Threads |-> t]
    /\ \E seed \in Seeds : hashSeed = [t \in Threads |-> seed]
    /\ heap = FiveLists \o FiveLists
    /\ fields = [p \in Instances |-> NewFields(5 * (p - 1) + 1)]
    /\ loc = [t \in Threads |-> NoLocals]
    /\ result = [t \in Threads |-> NoResult]

Spec == Init /\ [][Next]_vars

-----------------------------------------------------------------------------
(* Documents whose measures refer to one another.                          *)

Plus(e1, e2) == e1 \o <<"+">> \o e2

\* the expressions the measures a, b and c take
Expressions ==
    {ColRef(<<"T">>, "x"),
     ColRef(<<"U">>, "y"),
     MRef("a"),
     Plus(MRef("b"), MRef("x")),
     Plus(ColRef(<<"V">>, "z"), MRef("c")),
     Plus(ColRef(<<"T">>, "x"), MRef("b")),
     Plus(MRef("b"), MRef("c")),
     Plus(ColRef(<<"U">>, "y"), Plus(MRef("a"), MRef("a"))),
     Plus(ColRef(<<"T">>, "x"), Plus(ColRef(<<"U">>, "y"), ColRef(<<"T">>, "x"))),
     ColRef(<<"T">>, "b")}

MeasureDoc(ea, eb, ec) ==
    Obj(<<Member("model",
          Model(JList(<<Table(St("T"), JList(<<Partition(ItemLines)>>),
                              JList(<<Column("x", St("x0"))>>),
                              JList(<<Measure("a", ea), Measure("b", eb)>>)),
                        Table(St("U"), Absent, JList(<<Column("y", Absent)>>),
                              JList(<<Measure("c", ec)>>))>>),
                Absent))>>)

\* two measures of one name: the later one is the one a reference finds
TwiceDoc(ea, eb, ec) ==
    Obj(<<Member("model",
          Model(JList(<<Table(St("T"), Absent, JList(<<Column("x", Absent)>>),
                              JList(<<Measure("a", ea), Measure("b", eb),
                                      Measure("a", ec)>>))>>),
                Absent))>>)

MeasureTexts ==
    {Encode(MeasureDoc(ea, eb, ec)) : ea \in Expressions, eb \in Expressions,
                                      ec \in Expressions}
        \cup {Encode(TwiceDoc(ea, MRef("a"), ec)) : ea \in Expressions, ec \in Expressions}

\* one call, on a document of measures
InitMeasures ==
    /\ \E file_content \in MeasureTexts :
           text = [t \in Threads |-> IF t = 1 THEN file_content ELSE <<>>]
    /\ pc = [t \in Threads |-> IF t = 1 THEN "call" ELSE Off]
    /\ self = [t \in Threads |-> t]
    /\ \E seed \in Seeds : hashSeed = [t \in Threads |-> seed]
    /\ heap = FiveLists \o FiveLists
    /\ fields = [p \in Instances |-> NewFields(5 * (p - 1) + 1)]
    /\ loc = [t \in Threads |-> NoLocals]
    /\ result = [t \in Threads |-> NoResult]

SpecMeasures == InitMeasures /\ [][Next]_vars

-----------------------------------------------------------------------------
(* Two calls at once.                                                      *)

ConcDocs ==
    {Obj(<<Member("model",
           Model(JList(<<Table(St("T"), Absent, JList(<<Column("x", Absent)>>),
                               JList(<<Measure("a", Plus(ColRef(<<"T">>, "x"), MRef("b"))),
                                       Measure("b", ColRef(<<"U">>, "y"))>>))>>),
                 JList(<<Relationship(St("T"), St("U"))>>)))>>),
     Obj(<<Member("model",
           Model(JList(<<Table(St("U"), Absent, JList(<<Column("y", Absent)>>), Absent)>>),
                 Absent))>>),
     JNum("5")}

ConcTexts == {Encode(d) : d \in ConcDocs} \cup {<<P("{")>>}

\* two threads, each with its own text, on one BIMParser instance or on two;
\* threads on one instance are threads of one process
InitConc ==
    /\ text \in [Threads -> ConcTexts]
    /\ pc = [t \in Threads |-> "call"]
    /\ self \in [Threads -> Instances]
    /\ self[1] = 1
    /\ hashSeed \in [Threads -> Seeds]
    /\ self[1] = self[2] => hashSeed[1] = hashSeed[2]
    /\ heap = FiveLists \o FiveLists
    /\ fields = [p \in Instances |-> NewFields(5 * (p - 1) + 1)]
    /\ loc = [t \in Threads |-> NoLocals]
    /\ result = [t \in Threads |-> NoResult]

SpecConc == InitConc /\ [][Next]_vars

\* calls made one after another: a call takes its steps while no other call
\* is between its first step and its return
InTurn(t) == \A u \in Threads \ {t} : pc[u] \in {"call", "done"}

NextInTurn ==
    \E t \in Threads :
        \/ InTurn(t) /\ Reset(t)
        \/ InTurn(t) /\ JsonLoads(t)
        \/ InTurn(t) /\ Locate(t)
        \/ InTurn(t) /\ ParseTables(t)
        \/ InTurn(t) /\ ParseColumns(t)
        \/ InTurn(t) /\ MeasuresBegin(t)
        \/ InTurn(t) /\ MeasureNext(t)
        \/ InTurn(t) /\ ResolveVisit(t)
        \/ InTurn(t) /\ ResolveSkip(t)
        \/ InTurn(t) /\ ResolveReturn(t)
        \/ InTurn(t) /\ MeasureRender(t)
        \/ InTurn(t) /\ ParseRelationships(t)
        \/ InTurn(t) /\ GenerateOverview(t)
        \/ InTurn(t) /\ ResolveAll(t)
        \/ InTurn(t) /\ Return(t)

\* two calls, one after the other, on one BIMParser instance or on two
SpecTurns == InitConc /\ [][NextInTurn]_vars

-----------------------------------------------------------------------------
(* What parse_file returns.                                                *)

Done(t) == pc[t] = "done"
Decoded(t) == json_loads(text[t])
Located(t) == _locate_model(Decoded(t).val)
CollectionKeys == {"tables", "columns", "measures", "relationships", "overview"}
EmptySuccess ==
    [success |-> TRUE, tables |-> <<>>, columns |-> <<>>, measures |-> <<>>,
     relationships |-> <<>>, overview |-> <<>>]

\* C1: a call whose text does not decode as JSON returns success = false with
\* the decode message as its error, and its result holds none of the five
\* collections.
C1_DecodeFailureReported ==
    \A t \in Threads :
        Done(t) /\ ~Decoded(t).ok =>
            /\ DOMAIN result[t] = {"success", "error"}
            /\ result[t].success = FALSE
            /\ Len(result[t].error) > 0
            /\ result[t].error[1] = "cannot parse as JSON: "

\* C1: a call on a text cut short has returned
C1_CutTextReturned ==
    /\ Done(1)
    /\ Len(text[1]) > 1
    /\ ~Decoded(1).ok
    /\ result[1] = DecodeFailure

\* C2: a call whose text decodes as JSON to a document in which no model is
\* located returns success = true with the five collections empty.
C2_ModellessSucceeds ==
    \A t \in Threads :
        Done(t) /\ Decoded(t).ok /\ ~Located(t).found => Returned(t) = EmptySuccess

\* the exceptions the builders raise on the raw_data of thread t's instance
Faults(t) ==
    LET raw_data == Me(t).raw_data
        fault(built) == IF built.ok THEN {} ELSE {built.err}
    IN  fault(_parse_tables(raw_data)) \cup fault(_parse_columns(raw_data))
            \cup fault(_parse_measures(raw_data, hashSeed[t]))
            \cup fault(_parse_relationships(raw_data))
            \cup fault(_generate_overview(raw_data))

\* C3: a call whose document has a model without "tables", or without
\* "relationships", and is well formed in what it does have (the
\* relationships of a model without tables are objects; the builders raise
\* nothing on the tables of a model without relationships), returns
\* success = true, and the collection of the absent sequence is empty.
C3_AbsentSequenceSucceeds ==
    \A t \in Threads :
        Done(t) /\ Decoded(t).ok /\ Located(t).found =>
            LET model == Located(t).val
                no_tables == ~Has(model, S("tables"))
                no_relationships == ~Has(model, S("relationships"))
                relationships == Val(model, S("relationships"))
                sound == IF no_relationships THEN no_tables \/ Faults(t) = {}
                         ELSE /\ relationships.k = "list"
                              /\ \A i \in 1..Len(relationships.v) :
                                    relationships.v[i].k = "dict"
            IN  (no_tables \/ no_relationships) /\ sound =>
                    /\ result[t].success
                    /\ no_tables => Returned(t).tables = <<>>
                    /\ no_relationships => Returned(t).relationships = <<>>

\* C4: no exception leaves parse_file; a call returns either success = true
\* with exactly the five collections, or success = false with exactly an
\* error; and when a builder raises on the document, the call returns
\* success = false with the message of a raised exception.
C4_FaultsCaught ==
    \A t \in Threads :
        /\ pc[t] # "raised"
        /\ Done(t) =>
              /\ \/ DOMAIN result[t] = {"success"} \cup CollectionKeys /\ result[t].success
                 \/ DOMAIN result[t] = {"success", "error"} /\ ~result[t].success
              /\ Decoded(t).ok /\ Faults(t) # {} =>
                    /\ ~result[t].success
                    /\ Len(result[t].error) = 1
                    /\ result[t].error[1] \in Faults(t)

\* C4: a call in which _generate_overview raised, after the other builders
\* had appended their records, has returned
C4_LateFaultReturned ==
    /\ Done(1)
    /\ Decoded(1).ok
    /\ ~_generate_overview(Me(1).raw_data).ok
    /\ _parse_relationships(Me(1).raw_data).ok
    /\ Len(heap[Me(1).tables_info]) > 0

Denied == JStr(system_table)

\* C5: no collection of a successful call names the table User_...: no
\* tables, columns or overview record of it, no relationship with it at an
\* end, no involved-table line of a measure with it.
C5_DenylistedTableNowhere ==
    \A t \in Threads :
        Done(t) /\ result[t].success =>
            LET r == Returned(t) IN
            /\ \A i \in 1..Len(r.tables) : r.tables[i].tbl # Denied
            /\ \A i \in 1..Len(r.columns) : r.columns[i].tbl # Denied
            /\ \A i \in 1..Len(r.overview) : r.overview[i].tbl # Denied
            /\ \A i \in 1..Len(r.relationships) :
                  /\ ~IsSubstring(system_table, r.relationships[i].from_tbl)
                  /\ ~IsSubstring(system_table, r.relationships[i].to_tbl)
            /\ \A i \in 1..Len(r.measures) :
                  ~IsSubstring(system_table, r.measures[i].m_tables)

-----------------------------------------------------------------------------
(* What the measures of a document are said to involve.                    *)

\* the measures of thread t's document by name, as _parse_measures finds them
LookupOf(t) == MeasuresSetup(Me(t).raw_data).val.measure_lookup

ExprOf(lookup, name) == LookupGet(lookup, JStr(name), JNone).m_expr

\* the known measure names among the bracketed tokens of an expression
RefsIn(lookup, expr) ==
    {name \in Range(FindBracketed(expr, 1)) : LookupHas(lookup, JStr(name))}

RECURSIVE ReachFrom(_, _)
\* the names reachable from the names in names by following references
ReachFrom(lookup, names) ==
    LET more == names \cup UNION {RefsIn(lookup, ExprOf(lookup, name)) : name \in names}
    IN  IF more = names THEN names ELSE ReachFrom(lookup, more)

Reachable(lookup, expr) == ReachFrom(lookup, RefsIn(lookup, expr))

\* the tables quoted in expr and in the expression of a reachable measure
UnionTables(lookup, expr) ==
    _extract_involved_tables(expr)
        \cup UNION {_extract_involved_tables(ExprOf(lookup, name)) :
                        name \in Reachable(lookup, expr)}

\* the columns qualified in expr and in the expression of a reachable measure
UnionColumns(lookup, expr) ==
    _extract_involved_columns(expr)
        \cup UNION {_extract_involved_columns(ExprOf(lookup, name)) :
                        name \in Reachable(lookup, expr)}

RECURSIVE SplitLines(_)
\* the lines of a rendered field
SplitLines(field) ==
    IF field = <<>> THEN <<>>
    ELSE LET i == NextIdx(field, 1, NL) IN
         IF i = 0 THEN <<field>>
         ELSE <<SubSeq(field, 1, i - 1)>> \o SplitLines(SubSeq(field, i + 1, Len(field)))

\* the name a rendered line starts with, up to the atom that opens the source
NameOfLine(line, opening) == SubSeq(line, 1, NextIdx(line, 1, opening) - 1)
RenderedTables(rec) ==
    {NameOfLine(line, " (src_tbl: ") : line \in Range(SplitLines(rec.m_tables))}
RenderedColumns(rec) ==
    {NameOfLine(line, " (src_col: ") : line \in Range(SplitLines(rec.m_cols))}

NoLineTwice(field) ==
    LET lines == SplitLines(field) IN
    \A i, j \in 1..Len(lines) : lines[i] = lines[j] => i = j

\* C6: two calls on the same text, on two parser instances in one process
\* or in two, return the same collections, line order included.
C6_SameTextSameResult ==
    \A t1, t2 \in Threads :
        Done(t1) /\ Done(t2) /\ self[t1] # self[t2] /\ text[t1] = text[t2]
            => Returned(t1) = Returned(t2)

\* C7: each of two interleaved calls returns what parse_file returns for its
\* text when it runs alone.
C7_CallsIndependent ==
    \A t \in Threads : Done(t) => Returned(t) = parse_file(text[t], hashSeed[t])

\* C8: the tables rendered in a measure's involved-tables field are those
\* quoted in its expression and in the expression of every measure reachable
\* from it by bracketed references to known measure names, each on one line.
C8_InvolvedTablesAreUnion ==
    \A t \in Threads :
        Done(t) /\ result[t].success =>
            \A i \in 1..Len(Returned(t).measures) :
                LET rec == Returned(t).measures[i]
                    tables == UnionTables(LookupOf(t), rec.m_expr)
                IN  /\ RenderedTables(rec) = tables
                    /\ Len(SplitLines(rec.m_tables)) = Cardinality(tables)

\* C8: a call has returned a measure whose involved tables hold one that is
\* quoted neither in its own expression nor in that of a measure it names
C8_TableFromDepthTwo ==
    /\ Done(1)
    /\ result[1].success
    /\ \E i \in 1..Len(Returned(1).measures) :
          LET rec == Returned(1).measures[i]
              direct == RefsIn(LookupOf(1), rec.m_expr)
          IN  \E tbl \in RenderedTables(rec) :
                  /\ tbl \notin _extract_involved_tables(rec.m_expr)
                  /\ \A name \in direct :
                        tbl \notin _extract_involved_tables(ExprOf(LookupOf(1), name))

\* C9: the columns rendered in a measure's involved-columns field are those
\* qualified in its expression and in the expression of every measure
\* reachable from it.
C9_InvolvedColumnsAreUnion ==
    \A t \in Threads :
        Done(t) /\ result[t].success =>
            \A i \in 1..Len(Returned(t).measures) :
                LET rec == Returned(t).measures[i] IN
                RenderedColumns(rec) = UnionColumns(LookupOf(t), rec.m_expr)

\* while a measure is resolved: no name was added to visited_measures twice,
\* every recursive call was made for a name of its own, and the calls are
\* no more than the measure names
VisitedOnce(t) ==
    LET visits == loc[t].visits IN
    /\ \A i, j \in 1..Len(visits) : visits[i] = visits[j] => i = j
    /\ Range(visits) = loc[t].visited_measures
    /\ Len(loc[t].stack) <= Len(visits) + 1
    /\ Len(visits) <= Len(loc[t].measure_lookup)

\* how far a call is from its return: the statements of parse_file left,
\* the measures left, the statements left for the measure at hand, the
\* measure names not yet visited, and the matches and returns left to the
\* calls of resolve_measure_references on the stack
Phase(t) ==
    CASE pc[t] = "call" -> 12 [] pc[t] = "loads" -> 11 [] pc[t] = "locate" -> 10
      [] pc[t] = "tables" -> 9 [] pc[t] = "columns" -> 8 [] pc[t] = "measures" -> 7
      [] pc[t] \in {"m_next", "m_resolve", "m_render"} -> 6
      [] pc[t] = "relationships" -> 5 [] pc[t] = "overview" -> 4
      [] pc[t] = "refs" -> 3 [] pc[t] = "return" -> 2 [] OTHER -> 1

Stage(t) ==
    CASE pc[t] = "m_next" -> 3 [] pc[t] = "m_resolve" -> 2 [] pc[t] = "m_render" -> 1
      [] OTHER -> 0

RECURSIVE FramesLeft(_)
FramesLeft(stack) ==
    IF stack = <<>> THEN 0
    ELSE (Len(stack[1].matches) - stack[1].i + 2) + FramesLeft(Tail(stack))

\* no expression has more bracketed names than it has characters
RECURSIVE LongestExpression(_)
LongestExpression(all_measures) ==
    IF all_measures = <<>> THEN 0
    ELSE LET here == Len(all_measures[1].m_expr)
             rest == LongestExpression(Tail(all_measures))
         IN  IF here > rest THEN here ELSE rest

Rank(t) ==
    <<Phase(t),
      Len(loc[t].all_measures) + 1 - loc[t].mi,
      Stage(t),
      (Len(loc[t].measure_lookup) - Cardinality(loc[t].visited_measures))
          * (LongestExpression(loc[t].all_measures) + 3) + FramesLeft(loc[t].stack)>>

\* a comes before b in the lexicographic order of tuples of naturals
LexLess(a, b) ==
    \E i \in 1..Len(a) :
        /\ \A j \in 1..(i - 1) : a[j] = b[j]
        /\ a[i] < b[i]

\* C10: resolving the measures ends, with self and mutual references too:
\* every step of a call brings it nearer to its return, and a call that is
\* resolving has a step to take; no name is visited twice for one measure and
\* no recursive call is made twice for one name; no line of an involved
\* field is rendered twice.
C10_ResolvingTerminates ==
    /\ [][LexLess(Rank(1)', Rank(1))]_vars
    /\ [](\A t \in Threads :
             /\ \A i \in 1..4 : Rank(t)[i] >= 0
             /\ pc[t] = "m_resolve" => Len(loc[t].stack) > 0
             /\ VisitedOnce(t)
             /\ Done(t) /\ result[t].success =>
                   \A i \in 1..Len(Returned(t).measures) :
                       /\ NoLineTwice(Returned(t).measures[i].m_tables)
                       /\ NoLineTwice(Returned(t).measures[i].m_cols))

\* C10: inside a recursive call, a reference to a measure already visited
\* is met
C10_CycleMet ==
    /\ pc[1] = "m_resolve"
    /\ Len(loc[1].stack) >= 2
    /\ Top(1).i <= Len(Top(1).matches)
    /\ Match(1) \in loc[1].visited_measures

-----------------------------------------------------------------------------
(* What a measure is said to reference.                                    *)

\* the names of the measures of a call's result other than the i-th
OtherNames(measures, i) == {measures[j].m_name : j \in (1..Len(measures)) \ {i}}

\* C11: a measure none of whose bracketed tokens is the name of another
\* measure has an empty references field, and its involved tables and
\* columns are those of its own expression.
C11_NoOtherReferenceIsDirect ==
    \A t \in Threads :
        Done(t) /\ result[t].success =>
            \A i \in 1..Len(Returned(t).measures) :
                LET rec == Returned(t).measures[i]
                    tokens == Range(FindBracketed(rec.m_expr, 1))
                IN  (\A tok \in tokens : JStr(tok) \notin OtherNames(Returned(t).measures, i)) =>
                        /\ rec.m_refs = <<>>
                        /\ RenderedTables(rec) = _extract_involved_tables(rec.m_expr)
                        /\ RenderedColumns(rec) = _extract_involved_columns(rec.m_expr)

-----------------------------------------------------------------------------
(* Documents whose table takes its source from partition expressions.      *)

LLet      == <<"let">>
LItem     == <<"Source", EQ, "x", LB, "Item", EQ, DQ, "src", DQ, RB>>
LFrom     == <<"SELECT", SP, "x", SP, "FROM", SP, "dim">>
LFromLc   == <<"from", SP, "fact">>
LSelect   == <<"SELECT", SP, "x", SP, "FROM">>
LFact     == <<"fact">>
LConn     == <<"Source", SP, EQ, SP, HASH, DQ, "MySql", SLASH, "host", SEMI, "salesdb", DQ>>
LNative   == <<"Value.NativeQuery(", HASH, DQ, "MySql", SLASH, "host", SEMI, "db", DQ>>
LSchema   == <<"Schema", EQ, DQ, "db", DQ>>
LPlain    == <<"Source", EQ, HASH, DQ, "host", SEMI, "db", DQ>>

\* the lines a backing expression is made of
SourceLines ==
    {<<>>, <<LLet>>, <<LLet, LItem>>, <<LFrom>>, <<LFromLc>>, <<LSelect, LFact>>,
     <<LItem, LFrom>>, <<LFrom, LItem>>, <<LConn>>, <<LItem, LConn>>,
     <<LSchema, LFrom>>, <<LNative>>, <<LConn, LNative>>, <<LSchema, LConn>>, <<LPlain>>}

\* an expression given as a sequence of lines, and as one string
AsLines(lines) == JList([i \in 1..Len(lines) |-> JStr(lines[i])])
AsString(lines) == JStr(Join(lines, NL))

SourceExpressions ==
    {AsLines(lines) : lines \in SourceLines} \cup {AsString(lines) : lines \in SourceLines}

\* the expressions of the partitions of a table that has two
PairExpressions ==
    {AsLines(<<LLet>>), AsLines(<<LLet, LItem>>), AsLines(<<LFrom>>), AsString(<<LConn>>),
     AsLines(<<LConn>>)}

NoSource == Obj(<<Member("name", St("q"))>>)
NoExpression == Obj(<<Member("name", St("q")), Member("source", Obj(<<Member("type", St("m"))>>))>>)

PartitionsValues ==
    {Absent, JList(<<>>), JList(<<NoSource>>), JList(<<NoExpression>>)}
        \cup {JList(<<Partition(e)>>) : e \in SourceExpressions}
        \cup {JList(<<Partition(e1), Partition(e2)>>) : e1 \in PairExpressions, e2 \in PairExpressions}
        \cup {JList(<<q, Partition(AsLines(<<LFromLc>>))>>) : q \in {NoSource, NoExpression}}
        \cup {JList(<<Partition(JList(<<JNum("5")>>))>>)}

\* one table with the partitions given, a column and two measures
SourceDoc(partitions) ==
    Obj(<<Member("model",
          Model(JList(<<Table(St("T"), partitions, JList(<<Column("x", Absent)>>),
                              JList(<<Measure("a", MRef("b")),
                                      Measure("b", ColRef(<<"T">>, "x"))>>))>>),
                JList(<<>>)))>>)

SourceTexts == {Encode(SourceDoc(partitions)) : partitions \in PartitionsValues}

\* one call, on a document of partitions
InitSources ==
    /\ \E file_content \in SourceTexts :
           text = [t \in Threads |-> IF t = 1 THEN file_content ELSE <<>>]
    /\ pc = [t \in Threads |-> IF t = 1 THEN "call" ELSE Off]
    /\ self = [t \in Threads |-> t]
    /\ \E seed \in Seeds : hashSeed = [t \in Threads |-> seed]
    /\ heap = FiveLists \o FiveLists
    /\ fields = [p \in Instances |-> NewFields(5 * (p - 1) + 1)]
    /\ loc = [t \in Threads |-> NoLocals]
    /\ result = [t \in Threads |-> NoResult]

SpecSources == InitSources /\ [][Next]_vars

-----------------------------------------------------------------------------
(* What a table's source is said to be.                                    *)

\* the table of the document of thread t (the documents above have one)
TheTable(t) == Val(Val(Me(t).raw_data, S("model")), S("tables")).v[1]

\* the partitions of a table, none when the member is absent
PartitionsOf(table) ==
    IF Has(table, S("partitions")) THEN Val(table, S("partitions")).v ELSE <<>>

\* the backing expressions of a table in partition order: those of the
\* partitions that carry one
BackingExpressions(table) ==
    LET parts == PartitionsOf(table)
        carries(i) == Has(parts[i], S("source")) /\ Has(Val(parts[i], S("source")), S("expression"))
        expr(i) == Val(Val(parts[i], S("source")), S("expression"))
        idx == SelectSeq([i \in 1..Len(parts) |-> i], carries)
    IN  [n \in 1..Len(idx) |-> expr(idx[n])]

\* the text of an expression given as lines: the lines joined by newlines
TextOfLines(expression) == Join([i \in 1..Len(expression.v) |-> expression.v[i].v], NL)

\* the places of a text where an Item="<name>" tag, a FROM clause, starts
ItemTags(s) == {i \in 1..Len(s) : ItemAt(s, i).hit}
FromClauses(s) == {i \in 1..Len(s) : FromAt(s, i).hit}
Leftmost(places) == CHOOSE i \in places : \A j \in places : i <= j

\* the source table the precedence Item, FROM, sentinel gives for a text
SourceByPrecedence(s) ==
    IF ItemTags(s) # {} THEN ItemAt(s, Leftmost(ItemTags(s))).cap
    ELSE IF FromClauses(s) # {} THEN FromAt(s, Leftmost(FromClauses(s))).cap
    ELSE DAX

-----------------------------------------------------------------------------
(* Documents whose table renames its columns in partition expressions.     *)

\* {"old", "new"} and {old, "new"}
QPair(old, new) == <<LC, DQ, old, DQ, COMMA, SP, DQ, new, DQ, RC>>
BPair(old, new) == <<LC, old, COMMA, SP, DQ, new, DQ, RC>>
\* Table.RenameColumns(Source, {<pairs>})
Rename(pairs) ==
    <<"Table.RenameColumns(", "Source", COMMA, SP, LC>> \o Join(pairs, COMMA) \o <<RC, RP>>

ROldNew  == Rename(<<QPair("old", "new")>>)
RXNew    == Rename(<<QPair("x", "new")>>)
RTwice   == Rename(<<QPair("old", "new"), QPair("x", "new")>>)
ROther   == Rename(<<QPair("old", "y")>>)
RSame    == Rename(<<QPair("new", "new")>>)
RBare    == Rename(<<BPair("old", "new")>>)
RMixed   == Rename(<<QPair("a", "b"), BPair("old", "new")>>)

RenameLines ==
    {<<LLet>>, <<ROldNew>>, <<LLet, RXNew>>, <<RTwice>>, <<ROther>>, <<RSame>>, <<RBare>>,
     <<RMixed>>, <<ROldNew, RXNew>>, <<RXNew, ROldNew>>}

RenameExpressions ==
    {AsLines(lines) : lines \in RenameLines} \cup {AsString(lines) : lines \in RenameLines}

RenamePairExpressions ==
    {AsLines(<<LLet>>), AsLines(<<ROldNew>>), AsLines(<<RXNew>>), AsLines(<<ROther>>)}

RenamePartitions ==
    {Absent}
        \cup {JList(<<Partition(e)>>) : e \in RenameExpressions}
        \cup {JList(<<Partition(e1), Partition(e2)>>) :
                  e1 \in RenamePairExpressions, e2 \in RenamePairExpressions}

\* what a column declares as its sourceColumn
Declared == {Absent, St("x0"), EmptyStr}

\* one table with the partitions given, the columns new and y, two measures,
\* and a relationship from its column new to its column y
RenameDoc(partitions, declared) ==
    Obj(<<Member("model",
          Model(JList(<<Table(St("T"), partitions,
                              JList(<<Column("new", declared), Column("y", Absent)>>),
                              JList(<<Measure("a", MRef("b")),
                                      Measure("b", ColRef(<<"T">>, "new"))>>))>>),
                JList(<<Obj(<<Member("fromTable", St("T")), Member("fromColumn", St("new")),
                              Member("toTable", St("T")), Member("toColumn", St("y"))>>)>>)))>>)

RenameTexts ==
    {Encode(RenameDoc(partitions, declared)) :
         partitions \in RenamePartitions, declared \in Declared}

\* one call, on a document of renames
InitRenames ==
    /\ \E file_content \in RenameTexts :
           text = [t \in Threads |-> IF t = 1 THEN file_content ELSE <<>>]
    /\ pc = [t \in Threads |-> IF t = 1 THEN "call" ELSE Off]
    /\ self = [t \in Threads |-> t]
    /\ \E seed \in Seeds : hashSeed = [t \in Threads |-> seed]
    /\ heap = FiveLists \o FiveLists
    /\ fields = [p \in Instances |-> NewFields(5 * (p - 1) + 1)]
    /\ loc = [t \in Threads |-> NoLocals]
    /\ result = [t \in Threads |-> NoResult]

SpecRenames == InitRenames /\ [][Next]_vars

-----------------------------------------------------------------------------
(* What a column's source is said to be.                                   *)

\* the text a rename mapping is looked for in
RenameText(expression) ==
    IF expression.k = "list"
    THEN Join([i \in 1..Len(expression.v) |-> expression.v[i].v], SP)
    ELSE expression.v

\* the rename pairs <<old, new>> of an expression in text order: the pairs
\* of quoted strings of its rename calls, or when it has none, the pairs of
\* a bare identifier and a quoted string
RenamePairs(expression) ==
    LET matches == FindRename(RenameText(expression), 1)
        pairs(quoted) == Flatten([i \in 1..Len(matches) |-> FindPairs(matches[i], 1, quoted)])
    IN  IF pairs(TRUE) # <<>> THEN pairs(TRUE) ELSE pairs(FALSE)

\* the old names the partitions of a table map to the new name given
MappedOlds(table, new) ==
    LET backing == BackingExpressions(table) IN
    {pair[1] : pair \in UNION {Range(RenamePairs(backing[n])) : n \in 1..Len(backing)}
             \cap {pair \in UNION {Range(RenamePairs(backing[n])) : n \in 1..Len(backing)} :
                       pair[2] = new}}

\* C13: the source column of a column record is an old name a rename pair
\* of the table's partitions maps to the column's name, when there is one;
\* else what the column declares as sourceColumn, when that is not empty;
\* else the column's name; and it is not empty when the name is not.
C13_SourceColumnChain ==
    \A t \in Threads :
        Done(t) /\ result[t].success =>
            \A i \in 1..Len(Returned(t).columns) :
                LET rec == Returned(t).columns[i]
                    column == Val(TheTable(t), S("columns")).v[i]
                    olds == MappedOlds(TheTable(t), rec.col.v)
                    declared == DictGet(column, S("sourceColumn"), EmptyStr)
                IN  /\ rec.col = Val(column, S("name"))
                    /\ olds # {} => rec.src_col \in {JStr(old) : old \in olds}
                    /\ olds = {} /\ declared # EmptyStr => rec.src_col = declared
                    /\ olds = {} /\ declared = EmptyStr => rec.src_col = rec.col
                    /\ rec.col # EmptyStr => rec.src_col # EmptyStr

\* the rename pairs <<old, new>> of a table that target the new name given,
\* in partition order and then text order
PairsTargeting(table, new) ==
    LET backing == BackingExpressions(table)
        every == Flatten([n \in 1..Len(backing) |-> RenamePairs(backing[n])])
    IN  SelectSeq(every, LAMBDA pair : pair[2] = new)

\* C20: when more than one rename pair of the table's partitions targets a
\* column's name, the source column is the old name of the first of them in
\* partition order and text order, in one expression or across partitions.
C20_FirstRenameWins ==
    \A t \in Threads :
        Done(t) /\ result[t].success =>
            \A i \in 1..Len(Returned(t).columns) :
                LET rec == Returned(t).columns[i]
                    pairs == PairsTargeting(TheTable(t), rec.col.v)
                IN  Len(pairs) > 1 => rec.src_col = JStr(pairs[1][1])

-----------------------------------------------------------------------------
(* Documents of relationship declarations.                                 *)

\* a relationship from T.x to U.y with the three attributes given
Declaration(to_cardinality, cross_filtering_behavior, is_active) ==
    Obj(<<Member("fromTable", St("T")), Member("fromColumn", St("x")),
          Member("toTable", St("U")), Member("toColumn", St("y")),
          Member("toCardinality", to_cardinality),
          Member("crossFilteringBehavior", cross_filtering_behavior),
          Member("isActive", is_active)>>)

ToCardinalities == {Absent, EmptyStr, St("one"), St("many")}
CrossFilterings == {Absent, EmptyStr, St("oneDirection"), St("bothDirections")}
IsActives == {Absent, JBool("true"), JBool("false"), JNum("0")}

Declarations ==
    {Declaration(c, d, a) : c \in ToCardinalities, d \in CrossFilterings, a \in IsActives}

\* a relationship to U.y from the table and column given
Endpoint(from_table, from_column) ==
    Obj(<<Member("fromTable", from_table), Member("fromColumn", from_column),
          Member("toTable", St("U")), Member("toColumn", St("y"))>>)

\* endpoints the model has and endpoints it has not
Endpoints ==
    {Endpoint(tbl, col) : tbl \in {St("T"), St("V"), Absent, JNum("5")},
                          col \in {St("x"), St("z"), Absent}}
        \cup {Endpoint(JList(<<St("T")>>), St("x"))}

\* no declaration, one, the same one twice, two that differ
DeclarationLists ==
    {<<>>}
        \cup {<<r>> : r \in Endpoints}
        \cup {<<r>> : r \in Declarations}
        \cup {<<r, r>> : r \in {Declaration(Absent, Absent, a) : a \in IsActives}}
        \cup {<<Declaration(St("many"), Absent, Absent), r>> :
                  r \in {Declaration(Absent, Absent, a) : a \in IsActives}}

\* the tables T and U, two measures, and the declarations given
DeclarationDoc(declarations) ==
    Obj(<<Member("model",
          Model(JList(<<Table(St("T"), Absent, JList(<<Column("x", Absent)>>),
                              JList(<<Measure("a", MRef("b")),
                                      Measure("b", ColRef(<<"T">>, "x"))>>)),
                        TableU>>),
                JList(declarations)))>>)

DeclarationTexts == {Encode(DeclarationDoc(declarations)) : declarations \in DeclarationLists}

\* one call, on a document of relationship declarations
InitRelationships ==
    /\ \E file_content \in DeclarationTexts :
           text = [t \in Threads |-> IF t = 1 THEN file_content ELSE <<>>]
    /\ pc = [t \in Threads |-> IF t = 1 THEN "call" ELSE Off]
    /\ self = [t \in Threads |-> t]
    /\ \E seed \in Seeds : hashSeed = [t \in Threads |-> seed]
    /\ heap = FiveLists \o FiveLists
    /\ fields = [p \in Instances |-> NewFields(5 * (p - 1) + 1)]
    /\ loc = [t \in Threads |-> NoLocals]
    /\ result = [t \in Threads |-> NoResult]

SpecRelationships == InitRelationships /\ [][Next]_vars

\* the relationship declarations of the document a thread was given
DeclaredIn(t) == Val(Val(json_loads(text[t]).val, S("model")), S("relationships")).v

\* C14: a relationship is many-to-many exactly when its declaration marks
\* the many side (toCardinality is "many"), and one-to-many in every other
\* case: toCardinality absent, empty, or another value such as "one".
C14_ManyOnlyWhenMarked ==
    \A t \in Threads :
        Done(t) /\ result[t].success =>
            /\ Len(Returned(t).relationships) = Len(DeclaredIn(t))
            /\ \A i \in 1..Len(DeclaredIn(t)) :
                   Returned(t).relationships[i].card =
                       IF DictGet(DeclaredIn(t)[i], S("toCardinality"), EmptyStr) = St("many")
                       THEN "many_to_many" ELSE "one_to_many"

\* C15: a relationship filters in both directions exactly when its
\* declaration marks it so (crossFilteringBehavior is "bothDirections"), and
\* in a single direction in every other case: crossFilteringBehavior
\* absent, empty, or a value of one direction such as "oneDirection".
C15_BothOnlyWhenMarked ==
    \A t \in Threads :
        Done(t) /\ result[t].success =>
            /\ Len(Returned(t).relationships) = Len(DeclaredIn(t))
            /\ \A i \in 1..Len(DeclaredIn(t)) :
                   Returned(t).relationships[i].dir =
                       IF DictGet(DeclaredIn(t)[i], S("crossFilteringBehavior"), EmptyStr)
                              = St("bothDirections")
                       THEN "both" ELSE "single"

\* C16: the relationship records are the declarations, one record each in
\* the order declared, equal declarations included; a record is inactive
\* exactly when its declaration sets isActive to false, and active when
\* isActive is absent, true, or any other value.
C16_InactiveOnlyWhenFalse ==
    \A t \in Threads :
        Done(t) /\ result[t].success =>
            /\ Len(Returned(t).relationships) = Len(DeclaredIn(t))
            /\ \A i \in 1..Len(DeclaredIn(t)) :
                   LET rec == Returned(t).relationships[i]
                       declared == DeclaredIn(t)[i]
                   IN  rec.active =
                           IF /\ Has(declared, S("isActive"))
                              /\ Val(declared, S("isActive")) = JBool("false")
                           THEN "inactive" ELSE "active"

\* the same inactive declaration twice has come out as two inactive records
C16_TwinInactiveKept ==
    /\ Done(1) /\ result[1].success
    /\ Len(DeclaredIn(1)) = 2
    /\ DeclaredIn(1)[1] = DeclaredIn(1)[2]
    /\ Len(Returned(1).relationships) = 2
    /\ Returned(1).relationships[1] = Returned(1).relationships[2]
    /\ Returned(1).relationships[1].active = "inactive"

-----------------------------------------------------------------------------
(* The measure count of the overview.                                      *)

\* the tables of the document a thread was given
TablesIn(t) == Val(Val(Me(t).raw_data, S("model")), S("tables")).v

\* the expressions of the measures of all tables
ExpressionsIn(t) ==
    Flatten([i \in 1..Len(TablesIn(t)) |->
                 IF Has(TablesIn(t)[i], S("measures"))
                 THEN LET measures == Val(TablesIn(t)[i], S("measures")).v IN
                      [j \in 1..Len(measures) |-> Val(measures[j], S("expression")).v]
                 ELSE <<>>])

\* the expression holds the name between an opening and a closing quote
\* (a quote opens when it follows an even number of quotes)
DirectlyQuotes(expression, name) ==
    \E i \in 1..Len(expression) - Len(name) - 1 :
        /\ expression[i] = Q
        /\ Cardinality({j \in 1..(i - 1) : expression[j] = Q}) % 2 = 0
        /\ SubSeq(expression, i + 1, i + Len(name)) = name
        /\ expression[i + Len(name) + 1] = Q

\* C17: the measure count of a table in the overview is the number of
\* measures, of any table, whose own expression quotes the table's name,
\* each counted once; what a measure reaches through a reference does not
\* count.
C17_CountIsOfDirectQuotes ==
    \A t \in Threads :
        Done(t) /\ result[t].success =>
            /\ Len(Returned(t).overview) = Len(TablesIn(t))
            /\ \A i \in 1..Len(TablesIn(t)) :
                   LET rec == Returned(t).overview[i]
                       expressions == ExpressionsIn(t)
                   IN  /\ rec.tbl = Val(TablesIn(t)[i], S("name"))
                       /\ rec.n_meas =
                              Cardinality({j \in 1..Len(expressions) :
                                              DirectlyQuotes(expressions[j], rec.tbl.v)})

\* the measures whose involved tables list the name
ListedBy(t, name) ==
    {j \in 1..Len(Returned(t).measures) : name \in RenderedTables(Returned(t).measures[j])}

\* a table's count is below the number of measures that list it, and a
\* measure that quotes the table twice has been counted
C17_CountBelowListed ==
    /\ Done(1) /\ result[1].success
    /\ \E i \in 1..Len(Returned(1).overview) :
           LET rec == Returned(1).overview[i] IN
           /\ rec.n_meas > 0
           /\ rec.n_meas < Cardinality(ListedBy(1, rec.tbl.v))
           /\ \E j \in 1..Len(ExpressionsIn(1)) :
                  Cardinality({p \in 1..Len(ExpressionsIn(1)[j]) - 2 :
                                  SubSeq(ExpressionsIn(1)[j], p, p + 2) = <<Q>> \o rec.tbl.v \o <<Q>>}) > 1

\* an expression given as lines yields a match: an Item tag or a FROM clause
YieldsMatch(expression) ==
    ItemTags(TextOfLines(expression)) \cup FromClauses(TextOfLines(expression)) # {}

\* C18: the source table of a table whose partitions give their expressions
\* as lines is that of the first partition, in the order declared, whose
\* expression yields a match: a partition whose expression yields none is
\* passed over, and the sentinel is left when no partition yields a match.
C18_FirstMatchingPartitionWins ==
    \A t \in Threads :
        Done(t) /\ result[t].success /\ Len(Returned(t).tables) = 1 =>
            LET backing == BackingExpressions(TheTable(t))
                matching == SelectSeq(backing, YieldsMatch)
                rec == Returned(t).tables[1]
            IN  (\A n \in 1..Len(backing) : backing[n].k = "list") =>
                    rec.src_tbl = IF matching = <<>> THEN DAX
                                  ELSE SourceByPrecedence(TextOfLines(matching[1]))

\* C19: a backing expression given as one string gives the source table,
\* the endpoint and the database that the lines of the string give.
C19_StringAsItsLines ==
    \A t \in Threads :
        Done(t) /\ result[t].success /\ Len(Returned(t).tables) = 1 =>
            LET backing == BackingExpressions(TheTable(t)) IN
            backing # <<>> /\ backing[1].k = "str" =>
                LET lines == AsLines(SplitLines(backing[1].v))
                    conn == _extract_connection_info(lines).val
                IN  /\ Returned(t).tables[1].src_tbl = _extract_source_table(lines).val
                    /\ Returned(t).overview[1].src_tbl = _extract_source_table(lines).val
                    /\ Returned(t).overview[1].addr = conn[1]
                    /\ Returned(t).overview[1].db = conn[2]

-----------------------------------------------------------------------------
(* The references of a measure record.                                     *)

\* the names of the measure records
KnownNames(measures) == {measures[j].m_name : j \in 1..Len(measures)}

\* the bracketed tokens of an expression that name a known measure, each at
\* its first occurrence
FirstKnownTokens(expression, measures) ==
    LET tokens == FindBracketed(expression, 1)
        first(i) == /\ JStr(tokens[i]) \in KnownNames(measures)
                    /\ \A j \in 1..(i - 1) : tokens[j] # tokens[i]
        idx == SelectSeq([i \in 1..Len(tokens) |-> i], first)
    IN  [n \in 1..Len(idx) |-> tokens[idx[n]]]

TokenStarts(expression) ==
    {i \in 1..Len(expression) : expression[i] = LB /\ NextIdx(expression, i + 1, RB) > i + 1}
TokenFrom(expression, i) == SubSeq(expression, i + 1, NextIdx(expression, i + 1, RB) - 1)

\* the known measure names an expression holds as a bracketed token that no
\* quoted table name stands before
UnqualifiedRefs(lookup, expression) ==
    {TokenFrom(expression, i) :
         i \in {i \in TokenStarts(expression) :
                   /\ ~(i > 1 /\ expression[i - 1] = Q)
                   /\ LookupHas(lookup, JStr(TokenFrom(expression, i)))}}

RECURSIVE ReachUnqualified(_, _)
\* the names reachable from names through tokens that are not qualified
ReachUnqualified(lookup, names) ==
    LET more == names \cup UNION {UnqualifiedRefs(lookup, ExprOf(lookup, name)) : name \in names}
    IN  IF more = names THEN names ELSE ReachUnqualified(lookup, more)

\* C22: a bracketed token that names a known measure counts as a reference
\* exactly when no quoted table name qualifies it: the references of a
\* record are its unqualified tokens, and its involved tables are those of
\* its expression and of the measures reached through unqualified tokens.
C22_QualifiedTokenIsNoReference ==
    \A t \in Threads :
        Done(t) /\ result[t].success =>
            \A i \in 1..Len(Returned(t).measures) :
                LET rec == Returned(t).measures[i]
                    refs == UnqualifiedRefs(LookupOf(t), rec.m_expr)
                IN  /\ Range(SplitLines(rec.m_refs)) = refs
                    /\ RenderedTables(rec) =
                           _extract_involved_tables(rec.m_expr)
                               \cup UNION {_extract_involved_tables(ExprOf(LookupOf(t), name)) :
                                               name \in ReachUnqualified(LookupOf(t), refs)}

-----------------------------------------------------------------------------
(* Where the model of a document is taken from.                            *)

RECURSIVE PreOrder(_)
\* the objects and arrays of a decoded value, depth first in encounter order
PreOrder(node) ==
    IF node.k = "dict"
    THEN <<node>> \o Flatten([i \in 1..Len(node.v) |-> PreOrder(node.v[i][2])])
    ELSE IF node.k = "list"
    THEN <<node>> \o Flatten([i \in 1..Len(node.v) |-> PreOrder(node.v[i])])
    ELSE <<>>

\* the model an object gives by itself: the object under "model", else the
\* object under "SemanticModel", else the object when it holds a "tables"
\* list; a sequence of one model or of none
Direct(node) ==
    IF node.k # "dict" THEN <<>>
    ELSE IF Has(node, S("model")) /\ Val(node, S("model")).k = "dict"
    THEN <<Val(node, S("model"))>>
    ELSE IF Has(node, S("SemanticModel")) /\ Val(node, S("SemanticModel")).k = "dict"
    THEN <<Val(node, S("SemanticModel"))>>
    ELSE IF Has(node, S("tables")) /\ Val(node, S("tables")).k = "list"
    THEN <<node>>
    ELSE <<>>

\* the model of the first object, depth first, that gives one
FirstModel(doc) ==
    LET giving == SelectSeq(PreOrder(doc), LAMBDA node : Direct(node) # <<>>)
    IN  IF giving = <<>> THEN <<>> ELSE Direct(giving[1])

\* the call of thread t is past the locator
PastLocate(t) == pc[t] \notin {"call", "loads", "locate", Off} /\ Decoded(t).ok

\* C23: past the locator, raw_data holds under "model" the model of the
\* first object, depth first in encounter order, that gives one by the
\* precedence model, SemanticModel, own tables; the model is an object,
\* never a scalar; when no object gives one, raw_data is the decoded
\* document.
C23_LocatorPrecedence ==
    \A t \in Threads :
        PastLocate(t) =>
            LET model == FirstModel(Decoded(t).val) IN
            IF model = <<>>
            THEN Me(t).raw_data = Decoded(t).val
            ELSE /\ model[1].k = "dict"
                 /\ Me(t).raw_data = JDict(<< <<S("model"), model[1]>> >>)

\* a call is past the locator with the model of a nested object that
\* stands before an object holding another model
C23_NestedBeforeLater ==
    /\ PastLocate(1)
    /\ Decoded(1).val.k = "dict"
    /\ Direct(Decoded(1).val) = <<>>
    /\ Has(Decoded(1).val, S("c"))
    /\ Direct(Val(Decoded(1).val, S("c"))) = <<ModelTwo>>
    /\ Me(1).raw_data = JDict(<< <<S("model"), ModelOne>> >>)

\* an object holds a "tables" list
HoldsTables(node) == Has(node, S("tables")) /\ Val(node, S("tables")).k = "list"

\* the model an object gives when an object under "model" or under
\* "SemanticModel" counts only if it holds a "tables" list
DirectWithTables(node) ==
    IF node.k # "dict" THEN <<>>
    ELSE IF Has(node, S("model")) /\ Val(node, S("model")).k = "dict"
            /\ HoldsTables(Val(node, S("model")))
    THEN <<Val(node, S("model"))>>
    ELSE IF Has(node, S("SemanticModel")) /\ Val(node, S("SemanticModel")).k = "dict"
            /\ HoldsTables(Val(node, S("SemanticModel")))
    THEN <<Val(node, S("SemanticModel"))>>
    ELSE IF HoldsTables(node) THEN <<node>>
    ELSE <<>>

\* C24: the object under a model field is taken for the model only if it
\* holds a "tables" list; when it holds none the later rules apply, so a
\* root that holds a "tables" list itself is the model then.
C24_ModelFieldNeedsTables ==
    \A t \in Threads :
        PastLocate(t) =>
            LET giving == SelectSeq(PreOrder(Decoded(t).val),
                                    LAMBDA node : DirectWithTables(node) # <<>>)
            IN  IF giving = <<>>
                THEN Me(t).raw_data = Decoded(t).val
                ELSE Me(t).raw_data =
                         JDict(<< <<S("model"), DirectWithTables(giving[1])[1]>> >>)

-----------------------------------------------------------------------------
(* What a table's connection is said to be.                                *)

\* the places of a text where a native query, a Source assignment, a Schema
\* tag with their strings start
NativeQueries(s) == {i \in 1..Len(s) : NativeQueryAt(s, i).hit}
SourceAssignments(s) == {i \in 1..Len(s) : SourceAt(s, i).hit}
SchemaTags(s) == {i \in 1..Len(s) : SchemaAt(s, i).hit}

\* <<endpoint, database>> by the precedence native query, Source
\* assignment, Schema tag, nothing
ConnectionByPrecedence(s) ==
    IF NativeQueries(s) # {}
    THEN <<NativeQueryAt(s, Leftmost(NativeQueries(s))).addr,
           NativeQueryAt(s, Leftmost(NativeQueries(s))).db>>
    ELSE IF SourceAssignments(s) # {}
    THEN <<SourceAt(s, Leftmost(SourceAssignments(s))).addr,
           SourceAt(s, Leftmost(SourceAssignments(s))).db>>
    ELSE IF SchemaTags(s) # {} THEN << <<>>, SchemaAt(s, Leftmost(SchemaTags(s))).cap >>
    ELSE << <<>>, <<>> >>

\* the part of an endpoint before its first '/', nothing when it has none
ProtocolOf(endpoint) ==
    IF \E i \in 1..Len(endpoint) : endpoint[i] = SLASH
    THEN SubSeq(endpoint, 1, Leftmost({i \in 1..Len(endpoint) : endpoint[i] = SLASH}) - 1)
    ELSE <<>>

YieldsConnection(expression) ==
    LET s == TextOfLines(expression) IN
    NativeQueries(s) \cup SourceAssignments(s) \cup SchemaTags(s) # {}

\* C26: the endpoint, database and protocol of the overview record of a
\* table whose partitions give their expressions as lines are those of the
\* first partition, in the order declared, whose expression yields a
\* connection match; a partition whose expression yields none is passed over.
C26_FirstConnectedPartitionWins ==
    \A t \in Threads :
        Done(t) /\ result[t].success /\ Len(Returned(t).overview) = 1 =>
            LET backing == BackingExpressions(TheTable(t))
                connected == SelectSeq(backing, YieldsConnection)
                rec == Returned(t).overview[1]
                conn == IF connected = <<>> THEN << <<>>, <<>> >>
                        ELSE ConnectionByPrecedence(TextOfLines(connected[1]))
            IN  (\A n \in 1..Len(backing) : backing[n].k = "list") =>
                    /\ <<rec.addr, rec.db>> = conn
                    /\ rec.proto = ProtocolOf(conn[1])

-----------------------------------------------------------------------------
(* Endpoints the model does not have.                                      *)

\* the names of the tables of the document, and the keys "table.column" of
\* their columns
TableNamesIn(t) == {DictGet(TablesIn(t)[i], S("name"), EmptyStr) : i \in 1..Len(TablesIn(t))}
ColumnKeysIn(t) ==
    UNION {{PyStr(DictGet(TablesIn(t)[i], S("name"), EmptyStr)) \o <<".">>
                \o PyStr(DictGet(column, S("name"), EmptyStr)) :
                column \in Range(DictGet(TablesIn(t)[i], S("columns"), JList(<<>>)).v)} :
           i \in 1..Len(TablesIn(t))}

\* the annotation of an endpoint table with a source table, of an endpoint
\* column with a source column
TableNote(table, source) == PyStr(table) \o <<NL, "(src_tbl: ">> \o source \o <<")">>
ColumnNote(column, source) == PyStr(column) \o <<NL, "(src_col: ">> \o source \o <<")">>

\* the relationships of thread t's document name their endpoints by scalars
ScalarEndpoints(t) ==
    \A i \in 1..Len(DeclaredIn(t)) :
        /\ Hashable(DictGet(DeclaredIn(t)[i], S("fromTable"), EmptyStr))
        /\ Hashable(DictGet(DeclaredIn(t)[i], S("toTable"), EmptyStr))

\* C27: a call on a document whose relationships name their endpoints by
\* scalars succeeds and gives one record per relationship; an endpoint
\* table the model does not have is annotated with the sentinel source
\* table, and an endpoint column the model does not have with its own name.
C27_UnknownEndpointFallsBack ==
    \A t \in Threads :
        Done(t) /\ ScalarEndpoints(t) =>
            /\ result[t].success
            /\ Len(Returned(t).relationships) = Len(DeclaredIn(t))
            /\ \A i \in 1..Len(DeclaredIn(t)) :
                   LET rec == Returned(t).relationships[i]
                       from_table == DictGet(DeclaredIn(t)[i], S("fromTable"), EmptyStr)
                       from_column == DictGet(DeclaredIn(t)[i], S("fromColumn"), EmptyStr)
                   IN  /\ from_table \notin TableNamesIn(t) =>
                              rec.from_tbl = TableNote(from_table, DAX)
                       /\ PyStr(from_table) \o <<".">> \o PyStr(from_column) \notin ColumnKeysIn(t) =>
                              rec.from_col = ColumnNote(from_column, PyStr(from_column))

\* a relationship from the column z of the table V, neither of which the
\* model has, has come out with the sentinel and the column's own name
C27_UnknownEndpointEmitted ==
    /\ Done(1) /\ result[1].success
    /\ DeclaredIn(1) = <<Endpoint(St("V"), St("z"))>>
    /\ Len(Returned(1).relationships) = 1
    /\ Returned(1).relationships[1].from_tbl = <<"V", NL, "(src_tbl: ", "DAX", ")">>
    /\ Returned(1).relationships[1].from_col = <<"z", NL, "(src_col: ", "z", ")">>

-----------------------------------------------------------------------------
(* One provenance in every collection.                                     *)

\* the records of the tables and columns collections for a table, a column
TablesRecordOf(t, table) ==
    CHOOSE rec \in Range(Returned(t).tables) : rec.tbl = table
ColumnsRecordOf(t, table, column) ==
    CHOOSE rec \in Range(Returned(t).columns) : rec.tbl = table /\ rec.col = column

\* the tables and the columns the collections have records of
TablesRecorded(t) == {rec.tbl : rec \in Range(Returned(t).tables)}
ColumnsRecorded(t) == {<<rec.tbl, rec.col>> : rec \in Range(Returned(t).columns)}

\* C28: the source column shown for a column at a relationship endpoint
\* and in a line of a measure's involved columns is the source column of
\* the column's record, an empty declared sourceColumn included; the source
\* table shown for a table at a relationship endpoint, in a line of a
\* measure's involved tables, in the columns records and in the overview is
\* the source table of the table's record.
C28_ProvenanceAgrees ==
    \A t \in Threads :
        Done(t) /\ result[t].success =>
            /\ \A i \in 1..Len(Returned(t).relationships) :
                   LET rec == Returned(t).relationships[i]
                       from_table == DictGet(DeclaredIn(t)[i], S("fromTable"), EmptyStr)
                       from_column == DictGet(DeclaredIn(t)[i], S("fromColumn"), EmptyStr)
                       to_table == DictGet(DeclaredIn(t)[i], S("toTable"), EmptyStr)
                       to_column == DictGet(DeclaredIn(t)[i], S("toColumn"), EmptyStr)
                   IN  /\ from_table \in TablesRecorded(t) =>
                              rec.from_tbl = TableNote(from_table, TablesRecordOf(t, from_table).src_tbl)
                       /\ to_table \in TablesRecorded(t) =>
                              rec.to_tbl = TableNote(to_table, TablesRecordOf(t, to_table).src_tbl)
                       /\ <<from_table, from_column>> \in ColumnsRecorded(t) =>
                              rec.from_col =
                                  ColumnNote(from_column,
                                             PyStr(ColumnsRecordOf(t, from_table, from_column).src_col))
                       /\ <<to_table, to_column>> \in ColumnsRecorded(t) =>
                              rec.to_col =
                                  ColumnNote(to_column,
                                             PyStr(ColumnsRecordOf(t, to_table, to_column).src_col))
            /\ \A i \in 1..Len(Returned(t).measures) :
                   LET rec == Returned(t).measures[i] IN
                   /\ \A line \in Range(SplitLines(rec.m_tables)) :
                          LET table == JStr(NameOfLine(line, " (src_tbl: ")) IN
                          table \in TablesRecorded(t) =>
                              line = table.v \o <<" (src_tbl: ">>
                                         \o TablesRecordOf(t, table).src_tbl \o <<")">>
                   /\ \A line \in Range(SplitLines(rec.m_cols)) :
                          LET column == JStr(NameOfLine(line, " (src_col: ")) IN
                          \A table \in TablesRecorded(t) :
                              /\ table.v \in _extract_involved_tables(rec.m_expr)
                              /\ <<table, column>> \in ColumnsRecorded(t) =>
                                  line = column.v \o <<" (src_col: ">>
                                             \o PyStr(ColumnsRecordOf(t, table, column).src_col)
                                             \o <<")">>
            /\ \A rec \in Range(Returned(t).columns) :
                   rec.tbl \in TablesRecorded(t) => rec.src_tbl = TablesRecordOf(t, rec.tbl).src_tbl
            /\ \A rec \in Range(Returned(t).overview) :
                   rec.tbl \in TablesRecorded(t) => rec.src_tbl = TablesRecordOf(t, rec.tbl).src_tbl

-----------------------------------------------------------------------------
(* Calls made one after another on one instance.                           *)

\* C29: a call made after another call on the same instance has returned,
\* with success or without, returns what a fresh instance returns for its
\* text; no record of the earlier document is in its result.
C29_NextCallAsFresh ==
    \A t \in Threads :
        Done(t) =>
            /\ Returned(t) = parse_file(text[t], hashSeed[t])
            /\ \A u \in Threads \ {t} :
                   Done(u) /\ result[t].success /\ result[u].success =>
                       \A c \in CollectionKeys : result[t][c] # result[u][c]

\* two calls on one instance, on different documents, have both returned
\* tables, each in lists of its own
C29_TwoDocumentsOneInstance ==
    /\ self[1] = self[2]
    /\ Done(1) /\ Done(2)
    /\ text[1] # text[2]
    /\ result[1].success /\ result[2].success
    /\ Returned(1).tables # <<>> /\ Returned(2).tables # <<>>
    /\ Returned(1).tables # Returned(2).tables
    /\ result[1].tables # result[2].tables

\* C30: the collections of a result that was returned with success keep
\* their records through every step of a later call on the same instance,
\* whether that call succeeds or fails.
C30_ReturnedResultKept ==
    [][\A t \in Threads :
           Done(t) /\ result[t].success =>
               /\ result'[t] = result[t]
               /\ \A c \in CollectionKeys : heap'[result[t][c]] = heap[result[t][c]]]_vars

\* a later call on the same instance has filled its tables while the
\* result of the earlier one holds records
C30_LaterCallRunning ==
    \E t, u \in Threads :
        /\ t # u /\ self[t] = self[u]
        /\ Done(t) /\ result[t].success /\ Returned(t).tables # <<>>
        /\ pc[u] \notin {"call", "loads", "locate", "tables", "done"}
        /\ heap[Me(u).tables_info] # <<>>
        /\ Me(u).tables_info # result[t].tables

=============================================================================
